---- MODULE Spec2Model ----
(***************************************************************************)
(* A model of dnsviz/analysis/status.py: the DNSSEC proof evaluators       *)
(* RRSIGStatus, DSStatus, NSECStatus{NXDOMAIN,Wildcard,NoAnswer},          *)
(* NSEC3Status{NXDOMAIN,Wildcard,NoAnswer} and CNAMEFromDNAMEStatus.       *)
(*                                                                         *)
(* Every constructor is a straight-line program over its arguments.  The   *)
(* arguments are drawn in Init (variable inp); the object under            *)
(* construction is the record self, whose fields carry the attribute names *)
(* of the source; loc holds the constructor's local variables and pc its   *)
(* position.  Python's None is the empty tuple and a present value x is    *)
(* the one-element tuple <<x>>.                                            *)
(***************************************************************************)
EXTENDS Integers, Sequences, FiniteSets, TLC

VARIABLES inp, pc, self, loc

vars == <<inp, pc, self, loc>>

None == <<>>
Some(x) == <<x>>
Val(o) == o[1]

(***************************************************************************)
(* Bounds of the model.                                                    *)
(***************************************************************************)
\* timestamps (reference_ts, inception, expiration) range over 0..MaxTs
MaxTs == 2
\* TTLs (rrset.ttl, rrsig_info.ttl, original_ttl) range over 0..MaxTTL
MaxTTL == 1

(***************************************************************************)
(* Status codes, with the values the source gives them.                    *)
(***************************************************************************)
STATUS_VALID == 0
STATUS_INDETERMINATE == 1

RRSIG_STATUS_VALID == STATUS_VALID
RRSIG_STATUS_INDETERMINATE_NO_DNSKEY == 1
RRSIG_STATUS_INDETERMINATE_MATCH_PRE_REVOKE == 2
RRSIG_STATUS_INDETERMINATE_UNKNOWN_ALGORITHM == 3
RRSIG_STATUS_EXPIRED == 4
RRSIG_STATUS_PREMATURE == 5
RRSIG_STATUS_INVALID_SIG == 6
RRSIG_STATUS_INVALID == 7

DS_STATUS_VALID == STATUS_VALID
DS_STATUS_INDETERMINATE_NO_DNSKEY == 1
DS_STATUS_INDETERMINATE_MATCH_PRE_REVOKE == 2
DS_STATUS_INDETERMINATE_UNKNOWN_ALGORITHM == 3
DS_STATUS_INVALID_DIGEST == 4
DS_STATUS_INVALID == 7

\* the value of an attribute the constructor has not assigned yet
UNSET == -1

(***************************************************************************)
(* DNS names: tuples of labels, leftmost label first, as dns.name.Name.    *)
(* The labels of the zone apex and above are folded into the one label     *)
(* "z"; only relative lengths are used by the evaluators.                  *)
(***************************************************************************)
parent(n) == Tail(n)

\* dns.name.from_text('*', origin)
from_text_wild(n) == <<"*">> \o n

\* dns.name.Name.is_subdomain: n equals other or lies below it
is_subdomain(n, other) ==
    /\ Len(n) >= Len(other)
    /\ SubSeq(n, Len(n) - Len(other) + 1, Len(n)) = other

\* Python's labels[-k:]: the last k labels, all of them when k = 0 or k >= len
last_labels(n, k) ==
    IF k <= 0 \/ k >= Len(n) THEN n ELSE SubSeq(n, Len(n) - k + 1, Len(n))

\* the revoke bit of the DNSKEY flags (dnsviz.format.DNSKEY_FLAGS['revoke'])
DNSKEY_FLAG_REVOKE == 128

\* flags & mask, for a one-bit mask
flag_set(flags, mask) == (flags \div mask) % 2 = 1

\* record types (dns.rdatatype)
RD_A == 1
RD_NS == 2
RD_CNAME == 5
RD_SOA == 6
RD_DS == 43
RD_DNSKEY == 48

\* an error or warning object of dnsviz.analysis.errors: its class name
Err(name) == [name |-> name]

Names(list) == {list[i].name : i \in 1..Len(list)}

Min(a, b) == IF a <= b THEN a ELSE b

\* the levels of the logging module that serialize compares loglevel with
logging_DEBUG == 10
logging_INFO == 20
logging_WARNING == 30
logging_ERROR == 40

LogLevels == {logging_DEBUG, logging_INFO, logging_WARNING, logging_ERROR}

(***************************************************************************)
(* RRSIGStatus.__init__                                                     *)
(***************************************************************************)
Timestamps == 0..MaxTs
TTLs == 0..MaxTTL
KeyTags == {1, 2}
Zone == <<"z">>
SignerNames == {Zone, <<"b", "z">>}
OwnerNames == {<<"a", "z">>, <<"a", "b", "z">>}

DNSKEYs == [flags : {0, DNSKEY_FLAG_REVOKE},
            key_tag : KeyTags]

\* a DNSKEY argument (None, or a key) with the answer the crypto collaborator
\* gives for it: None (unsupported), True or False
KeyAndVerdict ==
    {<<None, None>>}
        \cup {<<Some(d), v>> : d \in DNSKEYs, v \in {None, Some(TRUE), Some(FALSE)}}

\* lines 143-158: the attributes before the first check
RRSIGStart(i) ==
    [warnings |-> <<>>, errors |-> <<>>,
     signature_valid |-> IF i.dnskey = None THEN None ELSE i.validate_rrsig,
     validation_status |-> RRSIG_STATUS_VALID]

\* the idiom "if self.validation_status == VALID: self.validation_status = s"
\* a faulty variant of downgrade: a second failing check restores VALID
downgrade_restoring(cur, s) == IF cur = STATUS_VALID THEN s ELSE STATUS_VALID

downgrade(cur, s) == IF cur = STATUS_VALID THEN s ELSE cur

\* lines 159-166: keying
RRSIG_Keying ==
    /\ inp.kind = "RRSIG" /\ pc = "keying"
    /\ self' =
         IF self.signature_valid = None \/ inp.algorithm_unknown
         THEN IF inp.dnskey = None
              THEN [self EXCEPT !.validation_status =
                        downgrade(@, RRSIG_STATUS_INDETERMINATE_NO_DNSKEY)]
              ELSE [self EXCEPT !.validation_status =
                        downgrade(@, RRSIG_STATUS_INDETERMINATE_UNKNOWN_ALGORITHM),
                                !.warnings = Append(@, Err("AlgorithmNotSupported"))]
         ELSE self
    /\ pc' = "ttl"
    /\ UNCHANGED <<inp, loc>>

\* a faulty variant of RRSIG_TTLSanity: min_ttl is the TTL of the rrset alone
RRSIG_TTLSanity_rrset_ttl_only ==
    /\ inp.kind = "RRSIG" /\ pc = "ttl"
    /\ LET w == IF inp.rrset.ttl # inp.rrsig_info_ttl
                THEN Append(self.warnings, Err("RRsetTTLMismatch"))
                ELSE self.warnings
           e == IF inp.rrsig_info_ttl > inp.rrsig.original_ttl
                THEN Append(self.errors, Err("OriginalTTLExceeded"))
                ELSE self.errors
       IN self' = [self EXCEPT !.warnings = w, !.errors = e]
    /\ loc' = [min_ttl |-> inp.rrset.ttl]
    /\ pc' = "signer"
    /\ UNCHANGED inp

\* lines 168-173: TTL sanity, and min_ttl
RRSIG_TTLSanity ==
    /\ inp.kind = "RRSIG" /\ pc = "ttl"
    /\ LET w == IF inp.rrset.ttl # inp.rrsig_info_ttl
                THEN Append(self.warnings, Err("RRsetTTLMismatch"))
                ELSE self.warnings
           e == IF inp.rrsig_info_ttl > inp.rrsig.original_ttl
                THEN Append(self.errors, Err("OriginalTTLExceeded"))
                ELSE self.errors
       IN self' = [self EXCEPT !.warnings = w, !.errors = e]
    /\ loc' = [min_ttl |-> Min(inp.rrset.ttl,
                               Min(inp.rrsig_info_ttl, inp.rrsig.original_ttl))]
    /\ pc' = "signer"
    /\ UNCHANGED inp

\* a faulty variant of signer_not_zone: the case of an unknown zone is not tested
signer_not_zone_known_only(i) ==
    i.zone_name # None /\ i.rrsig.signer # Val(i.zone_name)

\* the condition of lines 175-176
signer_not_zone(i) ==
    \/ i.zone_name # None /\ i.rrsig.signer # Val(i.zone_name)
    \/ i.zone_name = None /\ ~is_subdomain(i.rrset.name, i.rrsig.signer)

\* lines 175-183: signer scope
RRSIG_SignerScope ==
    /\ inp.kind = "RRSIG" /\ pc = "signer"
    /\ self' =
         IF signer_not_zone(inp)
         THEN [self EXCEPT !.validation_status = downgrade(@, RRSIG_STATUS_INVALID),
                           !.errors = Append(@, Err("SignerNotZone"))]
         ELSE self
    /\ pc' = "revoke"
    /\ UNCHANGED <<inp, loc>>

\* lines 185-193: revocation cross-check
RRSIG_Revocation ==
    /\ inp.kind = "RRSIG" /\ pc = "revoke"
    /\ self' =
         IF /\ inp.dnskey # None
            /\ flag_set(Val(inp.dnskey).flags, DNSKEY_FLAG_REVOKE)
            /\ inp.rrsig.covers # RD_DNSKEY
         THEN IF inp.rrsig.key_tag # Val(inp.dnskey).key_tag
              THEN [self EXCEPT !.validation_status =
                        downgrade(@, RRSIG_STATUS_INDETERMINATE_MATCH_PRE_REVOKE)]
              ELSE [self EXCEPT !.errors = Append(@, Err("DNSKEYRevokedRRSIG")),
                                !.validation_status =
                                    downgrade(@, RRSIG_STATUS_INVALID)]
         ELSE self
    /\ pc' = "window"
    /\ UNCHANGED <<inp, loc>>

\* a faulty variant of RRSIG_ValidityWindow: the status is assigned without
\* testing that it is still VALID
RRSIG_ValidityWindow_overwrite ==
    /\ inp.kind = "RRSIG" /\ pc = "window"
    /\ LET s1 == IF inp.reference_ts < inp.rrsig.inception
                 THEN [self EXCEPT !.validation_status = RRSIG_STATUS_PREMATURE,
                                   !.errors = Append(@, Err("InceptionInFuture"))]
                 ELSE self
           s2 == IF inp.reference_ts >= inp.rrsig.expiration
                 THEN [s1 EXCEPT !.validation_status = RRSIG_STATUS_EXPIRED,
                                 !.errors = Append(@, Err("ExpirationInPast"))]
                 ELSE IF inp.reference_ts + loc.min_ttl >= inp.rrsig.expiration
                 THEN [s1 EXCEPT !.errors = Append(@, Err("TTLBeyondExpiration"))]
                 ELSE s1
       IN self' = s2
    /\ pc' = "verdict"
    /\ UNCHANGED <<inp, loc>>

\* lines 195-204: validity window
RRSIG_ValidityWindow ==
    /\ inp.kind = "RRSIG" /\ pc = "window"
    /\ LET s1 == IF inp.reference_ts < inp.rrsig.inception
                 THEN [self EXCEPT !.validation_status =
                           downgrade(@, RRSIG_STATUS_PREMATURE),
                                   !.errors = Append(@, Err("InceptionInFuture"))]
                 ELSE self
           s2 == IF inp.reference_ts >= inp.rrsig.expiration
                 THEN [s1 EXCEPT !.validation_status =
                           downgrade(@, RRSIG_STATUS_EXPIRED),
                                 !.errors = Append(@, Err("ExpirationInPast"))]
                 ELSE IF inp.reference_ts + loc.min_ttl >= inp.rrsig.expiration
                 THEN [s1 EXCEPT !.errors = Append(@, Err("TTLBeyondExpiration"))]
                 ELSE s1
       IN self' = s2
    /\ pc' = "verdict"
    /\ UNCHANGED <<inp, loc>>

\* a faulty variant of RRSIG_Verdict: the failed signature is recorded and the
\* status is left alone
RRSIG_Verdict_error_only ==
    /\ inp.kind = "RRSIG" /\ pc = "verdict"
    /\ self' =
         IF /\ ~inp.algorithm_unknown
            /\ self.signature_valid = Some(FALSE)
            /\ Val(inp.dnskey).key_tag = inp.rrsig.key_tag
         THEN [self EXCEPT !.errors = Append(@, Err("SignatureInvalid"))]
         ELSE self
    /\ pc' = "done"
    /\ UNCHANGED <<inp, loc>>

\* lines 206-211: cryptographic verdict
RRSIG_Verdict ==
    /\ inp.kind = "RRSIG" /\ pc = "verdict"
    /\ self' =
         IF /\ ~inp.algorithm_unknown
            /\ self.signature_valid = Some(FALSE)
            /\ Val(inp.dnskey).key_tag = inp.rrsig.key_tag
         THEN [self EXCEPT !.validation_status =
                   downgrade(@, RRSIG_STATUS_INVALID_SIG),
                           !.errors = Append(@, Err("SignatureInvalid"))]
         ELSE self
    /\ pc' = "done"
    /\ UNCHANGED <<inp, loc>>

(***************************************************************************)
(* DSStatus.__init__                                                        *)
(***************************************************************************)
\* lines 267-280: the attributes before the first check
DSStart(i) ==
    [warnings |-> <<>>, errors |-> <<>>,
     digest_valid |-> IF i.dnskey = None THEN None ELSE i.validate_ds_digest,
     validation_status |-> DS_STATUS_VALID]

\* lines 281-288: keying
DS_Keying ==
    /\ inp.kind = "DS" /\ pc = "keying"
    /\ self' =
         IF self.digest_valid = None \/ inp.digest_algorithm_unknown
         THEN IF inp.dnskey = None
              THEN [self EXCEPT !.validation_status =
                        downgrade(@, DS_STATUS_INDETERMINATE_NO_DNSKEY)]
              ELSE [self EXCEPT !.validation_status =
                        downgrade(@, DS_STATUS_INDETERMINATE_UNKNOWN_ALGORITHM),
                                !.warnings = Append(@, Err("DigestAlgorithmNotSupported"))]
         ELSE self
    /\ pc' = "revoke"
    /\ UNCHANGED <<inp, loc>>

\* a faulty variant of DS_Revocation: the revoked key is not reported
DS_Revocation_silent ==
    /\ inp.kind = "DS" /\ pc = "revoke"
    /\ self' =
         IF inp.dnskey # None /\ flag_set(Val(inp.dnskey).flags, DNSKEY_FLAG_REVOKE)
         THEN IF Val(inp.dnskey).key_tag # inp.ds.key_tag
              THEN [self EXCEPT !.validation_status =
                        downgrade(@, DS_STATUS_INDETERMINATE_MATCH_PRE_REVOKE)]
              ELSE [self EXCEPT !.validation_status = downgrade(@, DS_STATUS_INVALID)]
         ELSE self
    /\ pc' = "verdict"
    /\ UNCHANGED <<inp, loc>>

\* lines 290-298: revocation cross-check
DS_Revocation ==
    /\ inp.kind = "DS" /\ pc = "revoke"
    /\ self' =
         IF inp.dnskey # None /\ flag_set(Val(inp.dnskey).flags, DNSKEY_FLAG_REVOKE)
         THEN IF Val(inp.dnskey).key_tag # inp.ds.key_tag
              THEN [self EXCEPT !.validation_status =
                        downgrade(@, DS_STATUS_INDETERMINATE_MATCH_PRE_REVOKE)]
              ELSE [self EXCEPT !.errors = Append(@, Err("DNSKEYRevokedDS")),
                                !.validation_status = downgrade(@, DS_STATUS_INVALID)]
         ELSE self
    /\ pc' = "verdict"
    /\ UNCHANGED <<inp, loc>>

\* a faulty variant of DS_Verdict: a failed digest is reported whatever the key tag
DS_Verdict_any_tag ==
    /\ inp.kind = "DS" /\ pc = "verdict"
    /\ self' =
         IF ~inp.digest_algorithm_unknown /\ self.digest_valid = Some(FALSE)
         THEN [self EXCEPT !.validation_status =
                   downgrade(@, DS_STATUS_INVALID_DIGEST),
                           !.errors = Append(@, Err("DigestInvalid"))]
         ELSE self
    /\ pc' = "done"
    /\ UNCHANGED <<inp, loc>>

\* lines 300-305: digest verdict
DS_Verdict ==
    /\ inp.kind = "DS" /\ pc = "verdict"
    /\ self' =
         IF /\ ~inp.digest_algorithm_unknown
            /\ self.digest_valid = Some(FALSE)
            /\ Val(inp.dnskey).key_tag = inp.ds.key_tag
         THEN [self EXCEPT !.validation_status =
                   downgrade(@, DS_STATUS_INVALID_DIGEST),
                           !.errors = Append(@, Err("DigestInvalid"))]
         ELSE self
    /\ pc' = "done"
    /\ UNCHANGED <<inp, loc>>

(***************************************************************************)
(* The signature evaluators as one specification.                          *)
(***************************************************************************)
NoLocals == [min_ttl |-> 0]

\* the arguments of RRSIGStatus(rrset, rrsig, dnskey, zone_name, reference_ts,
\* algorithm_unknown), with the answer crypto.validate_rrsig gives for them
InitRRSIG ==
    \E k \in KeyAndVerdict, au \in BOOLEAN, rn \in OwnerNames,
       t1 \in TTLs, t2 \in TTLs, t3 \in TTLs, sg \in SignerNames,
       cv \in {RD_A, RD_DNSKEY}, inc \in Timestamps, ex \in Timestamps,
       zn \in {None, Some(Zone)}, ts \in Timestamps :
        /\ inp = [kind |-> "RRSIG", dnskey |-> k[1], validate_rrsig |-> k[2],
                  algorithm_unknown |-> au,
                  rrset |-> [name |-> rn, ttl |-> t1], rrsig_info_ttl |-> t2,
                  rrsig |-> [original_ttl |-> t3, signer |-> sg, key_tag |-> 1,
                             covers |-> cv, inception |-> inc, expiration |-> ex],
                  zone_name |-> zn, reference_ts |-> ts]
        /\ pc = "keying"
        /\ self = RRSIGStart(inp)
        /\ loc = NoLocals

\* the arguments of DSStatus(ds, ds_meta, dnskey, digest_algorithm_unknown),
\* with the answer crypto.validate_ds_digest gives for them
InitDS ==
    \E k \in KeyAndVerdict, au \in BOOLEAN, kt \in KeyTags :
        /\ inp = [kind |-> "DS", dnskey |-> k[1], validate_ds_digest |-> k[2],
                  digest_algorithm_unknown |-> au, ds |-> [key_tag |-> kt]]
        /\ pc = "keying"
        /\ self = DSStart(inp)
        /\ loc = NoLocals

InitSig == InitRRSIG \/ InitDS

NextSig ==
    \/ RRSIG_Keying
    \/ RRSIG_TTLSanity
    \/ RRSIG_SignerScope
    \/ RRSIG_Revocation
    \/ RRSIG_ValidityWindow
    \/ RRSIG_Verdict
    \/ DS_Keying
    \/ DS_Revocation
    \/ DS_Verdict

SpecSig == InitSig /\ [][NextSig]_vars

(***************************************************************************)
(* The NSEC set view (dnsviz.response.NSECSet), as the evaluators use it:  *)
(* rrsets maps the owner of every NSEC (NSEC3) record to the record.       *)
(***************************************************************************)
NSEC_STATUS_VALID == STATUS_VALID
NSEC_STATUS_INDETERMINATE == STATUS_INDETERMINATE
NSEC_STATUS_INVALID == 2

\* at most MaxNSEC NSEC records in a view
MaxNSEC == 2

Origin == Zone

\* the names of the zone the model draws owners, next names and query names from
NameUniverse ==
    {Origin, <<"*", "z">>, <<"a", "z">>, <<"*", "a", "z">>, <<"a", "a", "z">>,
     <<"b", "z">>}

\* the order of labels in canonical DNS name order
label_ord(l) ==
    CASE l = "*" -> 0 [] l = "a" -> 1 [] l = "b" -> 2
      [] l = "h0" -> 3 [] l = "h1" -> 4 [] l = "h2" -> 5 [] l = "h3" -> 6 [] l = "h4" -> 7
      [] OTHER -> 8

\* dns.name.Name comparison: -1, 0 or 1 in canonical order, which compares the
\* labels from the rightmost and puts a name before its descendants
RECURSIVE name_cmp(_, _)
name_cmp(a, b) ==
    IF a = <<>> THEN (IF b = <<>> THEN 0 ELSE -1)
    ELSE IF b = <<>> THEN 1
    ELSE IF a[Len(a)] = b[Len(b)]
         THEN name_cmp(SubSeq(a, 1, Len(a) - 1), SubSeq(b, 1, Len(b) - 1))
         ELSE IF label_ord(a[Len(a)]) < label_ord(b[Len(b)]) THEN -1 ELSE 1

name_lt(a, b) == name_cmp(a, b) < 0
name_le(a, b) == name_cmp(a, b) <= 0

owners(view) == DOMAIN view.rrsets

\* NSECSet._nsec_covers_name: the NSEC at nsec_name proves that name does not exist
nsec_covers_name(view, name, nsec_name) ==
    LET prev_name == nsec_name
        next_name == view.rrsets[nsec_name].next
    IN  IF prev_name = next_name THEN prev_name # name
        ELSE IF name_lt(next_name, prev_name)
             THEN ~(name_le(next_name, name) /\ name_le(name, prev_name))
             ELSE /\ name_lt(prev_name, name) /\ name_lt(name, next_name)
                  /\ ~is_subdomain(next_name, name)

\* NSECSet.nsec_covering_name: the owners of the NSEC records covering name
nsec_covering_name(view, name) ==
    {o \in owners(view) : nsec_covers_name(view, name, o)}

\* NSECSet.rdtype_exists_in_bitmap, for an owner of the view
rdtype_exists_in_bitmap(view, name, rdtype) == rdtype \in view.rrsets[name].bitmap

\* NSECSet.project: the view restricted to the given owners
project(view, names) ==
    [view EXCEPT !.rrsets = [o \in names |-> view.rrsets[o]]]

\* a Python dict with no key, and one with the single key k
EmptyMap == <<>>
MapOf(k, v) == k :> v
values(m) == {m[k] : k \in DOMAIN m}

\* the proper ancestors of qname at or below origin
ancestors(qname, origin) ==
    {SubSeq(qname, i, Len(qname)) : i \in 2..(Len(qname) - Len(origin) + 1)}

\* the NSEC records of a view: owner -> next name, at most MaxNSEC of them
NSECChains ==
    UNION {[D -> NameUniverse] :
             D \in {S \in SUBSET NameUniverse : Cardinality(S) <= MaxNSEC}}

NSECView(chain, bits, referral) ==
    [rrsets |-> [o \in DOMAIN chain |->
                   [next |-> chain[o], bitmap |-> {t \in {RD_A, RD_NS, RD_SOA, RD_DS} :
                                                     <<o, t>> \in bits}]],
     referral |-> referral]

(***************************************************************************)
(* NSECStatusNXDOMAIN and NSECStatusWildcard                                *)
(***************************************************************************)
\* lines 357-371 (also run by NSECStatusWildcard through super().__init__):
\* the attributes before the wildcard scan
NSECNXDOMAINStart(i) ==
    LET covering_names == nsec_covering_name(i.nsec_set_info, i.qname)
    IN  [warnings |-> <<>>, errors |-> <<>>,
         wildcard_name |-> from_text_wild(i.origin),
         nsec_names_covering_qname |->
             IF covering_names # {} THEN MapOf(i.qname, covering_names) ELSE EmptyMap,
         nsec_names_covering_wildcard |-> EmptyMap,
         nsec_names_covering_origin |-> EmptyMap,
         validation_status |-> UNSET,
         nsec_set_info |-> None]

\* the locals of the constructor; scans counts the passes through the loop body
NSECLocals(i) == [wildcard_cover |-> i.qname, scans |-> 0]

\* a faulty variant of NSECNXDOMAIN_ScanWildcard: the scan goes on after a match
NSECNXDOMAIN_ScanWildcard_no_break ==
    /\ inp.kind \in {"NSEC_NXDOMAIN", "NSEC_Wildcard"} /\ pc = "scan"
    /\ loc.wildcard_cover # inp.origin
    /\ LET wildcard_name == from_text_wild(parent(loc.wildcard_cover))
           covering_names == nsec_covering_name(inp.nsec_set_info, wildcard_name)
       IN  /\ self' = IF covering_names # {}
                      THEN [self EXCEPT !.wildcard_name = wildcard_name,
                                        !.nsec_names_covering_wildcard =
                                            MapOf(wildcard_name, covering_names)]
                      ELSE self
           /\ loc' = [loc EXCEPT !.wildcard_cover = parent(@), !.scans = @ + 1]
           /\ pc' = "scan"
    /\ UNCHANGED inp

\* lines 374-381: one pass of the wildcard scan
NSECNXDOMAIN_ScanWildcard ==
    /\ inp.kind \in {"NSEC_NXDOMAIN", "NSEC_Wildcard"} /\ pc = "scan"
    /\ loc.wildcard_cover # inp.origin
    /\ LET wildcard_name == from_text_wild(parent(loc.wildcard_cover))
           covering_names == nsec_covering_name(inp.nsec_set_info, wildcard_name)
       IN  IF covering_names # {}
           THEN /\ self' = [self EXCEPT !.wildcard_name = wildcard_name,
                                !.nsec_names_covering_wildcard =
                                    MapOf(wildcard_name, covering_names)]
                /\ loc' = [loc EXCEPT !.scans = @ + 1]
                /\ pc' = "origin"
           ELSE /\ self' = self
                /\ loc' = [loc EXCEPT !.wildcard_cover = parent(@), !.scans = @ + 1]
                /\ pc' = "scan"
    /\ UNCHANGED inp

\* a faulty variant of scan_over: the scan is left by break only
scan_over_by_break == pc = "origin"

\* the wildcard scan is over: by break, or because wildcard_cover reached origin
scan_over == pc = "origin" \/ (pc = "scan" /\ loc.wildcard_cover = inp.origin)

\* lines 384-387 and 594-597: the NSEC records covering the origin
NSEC_CoverOrigin ==
    /\ inp.kind \in {"NSEC_NXDOMAIN", "NSEC_Wildcard", "NSEC_NoAnswer"}
    /\ scan_over
    /\ LET covering_names == nsec_covering_name(inp.nsec_set_info, inp.origin)
       IN  self' = [self EXCEPT !.nsec_names_covering_origin =
                        IF covering_names # {} THEN MapOf(inp.origin, covering_names)
                                               ELSE EmptyMap]
    /\ pc' = "set_status"
    /\ UNCHANGED <<inp, loc>>

\* Errors.LastNSECNextNotZone as lines 408-410 build it: list(nsec_names)[0] is
\* whichever covering owner the set yields first
LastNSECNextNotZone(view, covering_origin) ==
    {[name |-> "LastNSECNextNotZone", nsec_owner |-> o, next_name |-> view.rrsets[o].next] :
        o \in UNION values(covering_origin)}

NSECNXDOMAIN_projected_qname_only(s, view) ==
    IF s.validation_status = NSEC_STATUS_VALID
    THEN UNION values(s.nsec_names_covering_qname)
    ELSE owners(view)

\* lines 414-420: the owners handed to project
NSECNXDOMAIN_projected(s, view) ==
    IF s.validation_status = NSEC_STATUS_VALID
    THEN UNION (values(s.nsec_names_covering_qname)
                   \cup values(s.nsec_names_covering_wildcard))
    ELSE owners(view)

\* lines 398-420: NSECStatusNXDOMAIN._set_validation_status
NSECNXDOMAIN_set_validation_status ==
    /\ inp.kind = "NSEC_NXDOMAIN" /\ pc = "set_status"
    /\ \E last \in IF self.nsec_names_covering_origin # EmptyMap
                   THEN LastNSECNextNotZone(inp.nsec_set_info,
                                            self.nsec_names_covering_origin)
                   ELSE {None} :
         LET s0 == [self EXCEPT !.validation_status = NSEC_STATUS_VALID]
             s1 == IF s0.nsec_names_covering_qname = EmptyMap
                   THEN [s0 EXCEPT !.validation_status = NSEC_STATUS_INVALID,
                                   !.errors = Append(@, Err("SnameNotCoveredNameError"))]
                   ELSE s0
             s2 == IF s1.nsec_names_covering_wildcard = EmptyMap
                   THEN [s1 EXCEPT !.validation_status = NSEC_STATUS_INVALID,
                                   !.errors = Append(@, Err("WildcardNotCoveredNSEC"))]
                   ELSE s1
             s3 == IF s2.nsec_names_covering_origin # EmptyMap
                   THEN [s2 EXCEPT !.validation_status = NSEC_STATUS_INVALID,
                                   !.errors = Append(@, last)]
                   ELSE s2
         IN  self' = [s3 EXCEPT !.nsec_set_info =
                         project(inp.nsec_set_info,
                                 NSECNXDOMAIN_projected(s3, inp.nsec_set_info))]
    /\ pc' = "done"
    /\ UNCHANGED <<inp, loc>>

\* a faulty variant of NSECWildcard_after_super: what the inherited scan
\* found is kept
NSECWildcard_after_super_kept ==
    /\ inp.kind = "NSEC_Wildcard" /\ pc = "set_status"
    /\ self' = self
    /\ pc' = "set_status2"
    /\ UNCHANGED <<inp, loc>>

\* lines 487-489 and 503-504: super().__init__ ends in the overridden
\* _set_validation_status, which does nothing; then wildcard_name is the
\* caller's and nsec_names_covering_wildcard is emptied
NSECWildcard_after_super ==
    /\ inp.kind = "NSEC_Wildcard" /\ pc = "set_status"
    /\ self' = [self EXCEPT !.wildcard_name = inp.wildcard_name,
                            !.nsec_names_covering_wildcard = EmptyMap]
    /\ pc' = "set_status2"
    /\ UNCHANGED <<inp, loc>>

\* lines 500-501: NSECStatusWildcard._next_closest_encloser
NSECWildcard_next_closest_encloser(qname, wildcard_name) ==
    last_labels(qname, Len(wildcard_name))

\* lines 526-532: the owners handed to project
NSECWildcard_projected(s, view) ==
    IF s.validation_status = NSEC_STATUS_VALID
    THEN UNION values(s.nsec_names_covering_qname)
    ELSE owners(view)

\* a faulty variant of NSECWildcard_cover_rules: the two covers are tested
\* independently of each other
NSECWildcard_cover_rules_independent(s, view, next_closest_encloser) ==
    LET s1 == IF nsec_covering_name(view, next_closest_encloser) = {}
              THEN [s EXCEPT !.validation_status = NSEC_STATUS_INVALID,
                             !.errors = Append(@, Err("WildcardExpansionInvalid"))]
              ELSE s
    IN  IF s.nsec_names_covering_qname = EmptyMap
        THEN [s1 EXCEPT !.validation_status = NSEC_STATUS_INVALID,
                        !.errors = Append(@, Err("SnameNotCoveredWildcardAnswer"))]
        ELSE s1

\* lines 508-516: the cover of the next closer name is looked up only when
\* qname is covered; otherwise the missing cover of qname is the error
NSECWildcard_cover_rules(s, view, next_closest_encloser) ==
    IF s.nsec_names_covering_qname # EmptyMap
    THEN IF nsec_covering_name(view, next_closest_encloser) = {}
         THEN [s EXCEPT !.validation_status = NSEC_STATUS_INVALID,
                        !.errors = Append(@, Err("WildcardExpansionInvalid"))]
         ELSE s
    ELSE [s EXCEPT !.validation_status = NSEC_STATUS_INVALID,
                   !.errors = Append(@, Err("SnameNotCoveredWildcardAnswer"))]

\* lines 506-532: NSECStatusWildcard._set_validation_status2
NSECWildcard_set_validation_status2 ==
    /\ inp.kind = "NSEC_Wildcard" /\ pc = "set_status2"
    /\ \E last \in IF self.nsec_names_covering_origin # EmptyMap
                   THEN LastNSECNextNotZone(inp.nsec_set_info,
                                            self.nsec_names_covering_origin)
                   ELSE {None} :
         LET s0 == [self EXCEPT !.validation_status = NSEC_STATUS_VALID]
             next_closest_encloser ==
                 NSECWildcard_next_closest_encloser(inp.qname, s0.wildcard_name)
             s1 == NSECWildcard_cover_rules(s0, inp.nsec_set_info, next_closest_encloser)
             s2 == IF s1.nsec_names_covering_origin # EmptyMap
                   THEN [s1 EXCEPT !.validation_status = NSEC_STATUS_INVALID,
                                   !.errors = Append(@, last)]
                   ELSE s1
         IN  self' = [s2 EXCEPT !.nsec_set_info =
                         project(inp.nsec_set_info,
                                 NSECWildcard_projected(s2, inp.nsec_set_info))]
    /\ pc' = "done"
    /\ UNCHANGED <<inp, loc>>
(***************************************************************************)
(* NSECStatusNoAnswer                                                       *)
(***************************************************************************)
\* the bitmap bits the model varies: those NSECStatusNoAnswer reads (of the
\* NSEC at qname for rdtype, NS, DS and SOA, and the rdtype bit of the NSEC at
\* a wildcard of an ancestor of qname), and the rdtype and NS bits of an NSEC
\* the empty-non-terminal fallback can select, which the constructor does not
\* read; every other bit is left unset
NSECNoAnswer_bits_read(q, rdtype, chain) ==
    {<<q, t>> : t \in IF q \in DOMAIN chain THEN {rdtype, RD_NS, RD_DS, RD_SOA} ELSE {}}
    \cup {<<w, rdtype>> :
            w \in {from_text_wild(a) : a \in ancestors(q, Origin)} \cap DOMAIN chain}
    \cup {ot \in (DOMAIN chain) \X {rdtype, RD_NS} :
            /\ q \notin DOMAIN chain
            /\ is_subdomain(chain[ot[1]], q) /\ chain[ot[1]] # q}

\* lines 565-571: the owners the empty-non-terminal fallback can stop at; the
\* loop takes the first one the dict of rrsets yields
NSECNoAnswer_fallback(view, qname) ==
    {nsec_name \in owners(view) :
        LET next_name == view.rrsets[nsec_name].next
        IN  is_subdomain(next_name, qname) /\ next_name # qname}

\* lines 543-580: the attributes before the wildcard scan, one for every choice
\* of the fallback
NSECNoAnswerStart(i) ==
    LET view == i.nsec_set_info
        covering_names == nsec_covering_name(view, i.qname)
        common == [warnings |-> <<>>, errors |-> <<>>,
                   referral |-> view.referral,
                   wildcard_name |-> from_text_wild(i.origin),
                   nsec_for_qname |-> None,
                   has_rdtype |-> FALSE, has_ns |-> FALSE,
                   has_ds |-> FALSE, has_soa |-> FALSE,
                   nsec_names_covering_qname |->
                       IF covering_names # {} THEN MapOf(i.qname, covering_names)
                                              ELSE EmptyMap,
                   nsec_for_wildcard_name |-> None,
                   wildcard_has_rdtype |-> None,
                   nsec_names_covering_origin |-> EmptyMap,
                   validation_status |-> UNSET,
                   nsec_set_info |-> None]
    IN  IF i.qname \in owners(view)
        THEN {[common EXCEPT
                 !.nsec_for_qname = Some(i.qname),
                 !.has_rdtype = rdtype_exists_in_bitmap(view, i.qname, i.rdtype),
                 !.has_ns = rdtype_exists_in_bitmap(view, i.qname, RD_NS),
                 !.has_ds = rdtype_exists_in_bitmap(view, i.qname, RD_DS),
                 !.has_soa = rdtype_exists_in_bitmap(view, i.qname, RD_SOA)]}
        ELSE IF NSECNoAnswer_fallback(view, i.qname) = {}
             THEN {common}
             ELSE {[common EXCEPT !.nsec_for_qname = Some(n)] :
                     n \in NSECNoAnswer_fallback(view, i.qname)}

\* a faulty variant of NSECNoAnswer_ScanWildcard: the first wildcard NSEC met
\* is kept
NSECNoAnswer_ScanWildcard_keep_first ==
    /\ inp.kind = "NSEC_NoAnswer" /\ pc = "scan"
    /\ loc.wildcard_cover # inp.origin
    /\ LET wildcard_name == from_text_wild(parent(loc.wildcard_cover))
       IN  self' =
             IF /\ wildcard_name \in owners(inp.nsec_set_info)
                /\ self.nsec_for_wildcard_name = None
             THEN [self EXCEPT
                     !.nsec_for_wildcard_name = Some(wildcard_name),
                     !.wildcard_has_rdtype =
                         Some(rdtype_exists_in_bitmap(inp.nsec_set_info,
                                                      wildcard_name, inp.rdtype)),
                     !.wildcard_name = wildcard_name]
             ELSE self
    /\ loc' = [loc EXCEPT !.wildcard_cover = parent(@), !.scans = @ + 1]
    /\ pc' = "scan"
    /\ UNCHANGED inp

\* lines 583-591: one pass of the wildcard scan, which does not stop at a match
NSECNoAnswer_ScanWildcard ==
    /\ inp.kind = "NSEC_NoAnswer" /\ pc = "scan"
    /\ loc.wildcard_cover # inp.origin
    /\ LET wildcard_name == from_text_wild(parent(loc.wildcard_cover))
       IN  self' =
             IF wildcard_name \in owners(inp.nsec_set_info)
             THEN [self EXCEPT
                     !.nsec_for_wildcard_name = Some(wildcard_name),
                     !.wildcard_has_rdtype =
                         Some(rdtype_exists_in_bitmap(inp.nsec_set_info,
                                                      wildcard_name, inp.rdtype)),
                     !.wildcard_name = wildcard_name]
             ELSE self
    /\ loc' = [loc EXCEPT !.wildcard_cover = parent(@), !.scans = @ + 1]
    /\ pc' = "scan"
    /\ UNCHANGED inp

NSECNoAnswer_projected_all(s, view) == owners(view)

\* lines 647-658: the owners handed to project
NSECNoAnswer_projected(s, view) ==
    IF s.validation_status = NSEC_STATUS_VALID
    THEN (IF s.nsec_for_qname # None
          THEN {Val(s.nsec_for_qname)}
          ELSE UNION values(s.nsec_names_covering_qname))
         \cup (IF s.nsec_for_wildcard_name # None THEN {s.wildcard_name} ELSE {})
    ELSE owners(view)

NSECNoAnswer_invalid_status_only(s, e) ==
    [s EXCEPT !.validation_status = NSEC_STATUS_INVALID]

\* lines 617-618 and their likes up to line 643: a failed rule appends its
\* error and sets INVALID
NSECNoAnswer_invalid(s, e) ==
    [s EXCEPT !.errors = Append(@, e), !.validation_status = NSEC_STATUS_INVALID]

\* lines 616-624: the NSEC of a referral has the NS bit and neither DS nor SOA
NSECNoAnswer_referral_rules(s) ==
    LET r1 == IF ~s.has_ns
              THEN NSECNoAnswer_invalid(s, Err("ReferralWithoutNSBitNSEC")) ELSE s
        r2 == IF r1.has_ds
              THEN NSECNoAnswer_invalid(r1, Err("ReferralWithDSBitNSEC")) ELSE r1
    IN  IF r2.has_soa THEN NSECNoAnswer_invalid(r2, Err("ReferralWithSOABitNSEC")) ELSE r2

\* lines 611-658: NSECStatusNoAnswer._set_validation_status
NSECNoAnswer_set_validation_status ==
    /\ inp.kind = "NSEC_NoAnswer" /\ pc = "set_status"
    /\ \E last \in IF self.nsec_names_covering_origin # EmptyMap
                   THEN LastNSECNextNotZone(inp.nsec_set_info,
                                            self.nsec_names_covering_origin)
                   ELSE {None} :
         LET s0 == [self EXCEPT !.validation_status = NSEC_STATUS_VALID]
             invalid(s, e) == NSECNoAnswer_invalid(s, e)
             r3 == NSECNoAnswer_referral_rules(s0)
             \* lines 625-628
             n1 == IF s0.has_rdtype THEN invalid(s0, Err("StypeInBitmapNoDataNSEC")) ELSE s0
             \* lines 630-640
             w1 == IF s0.nsec_names_covering_qname = EmptyMap
                   THEN invalid(s0, Err("SnameNotCoveredWildcardNoData")) ELSE s0
             w2 == IF w1.wildcard_has_rdtype = Some(TRUE)
                   THEN invalid(w1, Err("StypeInBitmapNoDataNSEC")) ELSE w1
             w3 == IF w2.nsec_names_covering_origin # EmptyMap
                   THEN invalid(w2, last) ELSE w2
             s4 == IF s0.nsec_for_qname # None
                   THEN (IF inp.rdtype = RD_DS \/ s0.referral THEN r3 ELSE n1)
                   ELSE IF s0.nsec_for_wildcard_name # None
                   THEN w3
                   ELSE invalid(s0, Err("NoNSECMatchingSnameNoData"))
         IN  self' = [s4 EXCEPT !.nsec_set_info =
                         project(inp.nsec_set_info,
                                 NSECNoAnswer_projected(s4, inp.nsec_set_info))]
    /\ pc' = "done"
    /\ UNCHANGED <<inp, loc>>

(***************************************************************************)
(* The NSEC evaluators as one specification.                               *)
(***************************************************************************)
\* the arguments of NSECStatusNXDOMAIN(qname, rdtype, origin, nsec_set_info);
\* the constructor reads no type bitmap
InitNSECNXDOMAIN ==
    \E q \in NameUniverse, c \in NSECChains :
        /\ inp = [kind |-> "NSEC_NXDOMAIN", qname |-> q, origin |-> Origin,
                  nsec_set_info |-> NSECView(c, {}, FALSE)]
        /\ pc = "scan"
        /\ self = NSECNXDOMAINStart(inp)
        /\ loc = NSECLocals(inp)

\* the arguments of NSECStatusWildcard(qname, wildcard_name, rdtype, origin,
\* nsec_set_info): the wildcard of an ancestor of qname
InitNSECWildcard ==
    \E q \in NameUniverse, c \in NSECChains :
      \E a \in ancestors(q, Origin) :
        /\ inp = [kind |-> "NSEC_Wildcard", qname |-> q,
                  wildcard_name |-> from_text_wild(a), origin |-> Origin,
                  nsec_set_info |-> NSECView(c, {}, FALSE)]
        /\ pc = "scan"
        /\ self = NSECNXDOMAINStart(inp)
        /\ loc = NSECLocals(inp)

\* the arguments of NSECStatusNoAnswer(qname, rdtype, origin, nsec_set_info)
InitNSECNoAnswer ==
    \E q \in NameUniverse, t \in {RD_A, RD_DS}, c \in NSECChains, r \in BOOLEAN :
      \E bits \in SUBSET NSECNoAnswer_bits_read(q, t, c) :
        /\ inp = [kind |-> "NSEC_NoAnswer", qname |-> q, rdtype |-> t,
                  origin |-> Origin, nsec_set_info |-> NSECView(c, bits, r)]
        /\ pc = "scan"
        /\ self \in NSECNoAnswerStart(inp)
        /\ loc = NSECLocals(inp)

InitNSEC == InitNSECNXDOMAIN \/ InitNSECWildcard \/ InitNSECNoAnswer

NextNSEC ==
    \/ NSECNXDOMAIN_ScanWildcard
    \/ NSECNoAnswer_ScanWildcard
    \/ NSEC_CoverOrigin
    \/ NSECNXDOMAIN_set_validation_status
    \/ NSECWildcard_after_super
    \/ NSECWildcard_set_validation_status2
    \/ NSECNoAnswer_set_validation_status

SpecNSEC == InitNSEC /\ [][NextNSEC]_vars

\* a constructor that has a next statement executes it
SpecNSECFair == SpecNSEC /\ WF_vars(NextNSEC)

(***************************************************************************)
(* The NSEC3 side of the view.  An NSEC3 owner is a hashed label under the  *)
(* origin; every record carries its (salt, algorithm, iterations).          *)
(***************************************************************************)
HashLabels == <<"h0", "h1", "h2", "h3", "h4">>

\* the hashed owner names of the zone
DigestNames == {<<HashLabels[k]>> \o Origin : k \in 1..Len(HashLabels)}

\* the NSEC3 hash algorithms the build supports (SHA-1), and the parameter
\* groups a view can hold
NSEC3Supported == {1}
NSEC3ParamsUniverse == {<<0, 1, 0>>, <<1, 1, 0>>, <<0, 99, 0>>}

\* the hash of a name under a salt: a fixed injective table per salt
NSEC3Hash(name, salt) ==
    LET k == CASE name = <<"a", "z">> -> 0
               [] name = <<"*", "a", "z">> -> 1
               [] name = <<"z">> -> 2
               [] name = <<"a", "a", "z">> -> 3
               [] name = <<"*", "z">> -> 4
    IN  HashLabels[((k + salt) % Len(HashLabels)) + 1]

\* NSECSet.get_digest_name_for_nsec3: None when the algorithm is unsupported
get_digest_name_for_nsec3(name, origin, salt, alg, iterations) ==
    IF alg \in NSEC3Supported THEN <<NSEC3Hash(name, salt)>> \o origin ELSE None

digest_for(name, origin, params) ==
    get_digest_name_for_nsec3(name, origin, params[1], params[2], params[3])

\* NSECSet.nsec3_params: (salt, alg, iterations) -> the owners of the group
nsec3_params(view) ==
    LET groups == {view.rrsets[o].params : o \in owners(view)}
    IN  IF groups = {} THEN EmptyMap
        ELSE [g \in groups |-> {o \in owners(view) : view.rrsets[o].params = g}]

\* NSECSet.nsec3_covering_name: the owners of the group whose span covers the hash
nsec3_covering_name(view, digest_name, salt, alg, iterations) ==
    {o \in nsec3_params(view)[<<salt, alg, iterations>>] :
        nsec_covers_name(view, digest_name, o)}

\* NSECSet.get_algorithm_support: the algorithms of the groups, split into the
\* supported and the unsupported ones
get_algorithm_support(view) ==
    LET algs == {g[2] : g \in DOMAIN nsec3_params(view)}
    IN  <<algs \cap NSEC3Supported, algs \ NSEC3Supported>>

\* NSECSet.get_closest_encloser: per group, the longest proper ancestor of
\* qname whose hash is an owner of the group; encloser -> those owners
get_closest_encloser(view, qname, origin) ==
    LET groups == nsec3_params(view)
        candidates(g) ==
            {n \in ancestors(qname, origin) : digest_for(n, origin, g) \in groups[g]}
        longest(g) ==
            {n \in candidates(g) : \A m \in candidates(g) : Len(m) <= Len(n)}
        enclosers == UNION {longest(g) : g \in DOMAIN groups}
    IN  IF enclosers = {} THEN EmptyMap
        ELSE [e \in enclosers |->
                {digest_for(e, origin, g) : g \in {h \in DOMAIN groups : e \in longest(h)}}]

\* the dicts a loop can leave behind when it assigns d[key] = value for every
\* pair of writes, in the order the view yields them: a later write to the
\* same key replaces the earlier one
dicts_written(writes) ==
    LET keys == {w[1] : w \in writes}
    IN  IF keys = {} THEN {EmptyMap}
        ELSE {m \in [keys -> {w[2] : w \in writes}] :
                \A k \in keys : <<k, m[k]>> \in writes}

\* the NSEC3 records of a view: owner -> next hashed owner, at most MaxNSEC of them
NSEC3Chains ==
    UNION {[D -> DigestNames] :
             D \in {S \in SUBSET DigestNames : Cardinality(S) <= MaxNSEC}}

NSEC3View(chain, par, bits, optout, referral) ==
    [rrsets |-> [o \in DOMAIN chain |->
                   [next |-> chain[o], params |-> par[o],
                    flags |-> IF o \in optout THEN 1 ELSE 0,
                    bitmap |-> {t \in {RD_A, RD_NS, RD_CNAME, RD_SOA, RD_DS} :
                                  <<o, t>> \in bits}]],
     referral |-> referral]

\* Errors.UnsupportedNSEC3Algorithm as lines 809, 963 and 1100 build it:
\* list(invalid_algs)[0] is whichever algorithm the set yields first
UnsupportedNSEC3Algorithm(invalid_algs) ==
    {[name |-> "UnsupportedNSEC3Algorithm", algorithm |-> a] : a \in invalid_algs}

(***************************************************************************)
(* NSEC3StatusNXDOMAIN and NSEC3StatusWildcard                              *)
(***************************************************************************)
\* lines 784-785 and 1084-1085: _get_next_closest_encloser
NSEC3_next_closest_encloser(qname, encloser) == last_labels(qname, Len(encloser) + 1)

\* lines 793-794 and 1093-1094: _get_wildcard
NSEC3_get_wildcard(encloser) == from_text_wild(encloser)

\* lines 724-730 (and 939 for NSEC3StatusWildcard): the attributes before
\* _set_closest_encloser
NSEC3NXDOMAINStart(i) ==
    [warnings |-> <<>>, errors |-> <<>>,
     wildcard_name |-> IF i.kind = "NSEC3_Wildcard" THEN i.wildcard_name ELSE None,
     closest_encloser |-> EmptyMap,
     nsec_names_covering_qname |-> EmptyMap,
     nsec_names_covering_wildcard |-> EmptyMap,
     validation_status |-> UNSET,
     nsec_set_info |-> None]

\* lines 802-803: NSEC3StatusNXDOMAIN._set_closest_encloser
NSEC3NXDOMAIN_set_closest_encloser ==
    /\ inp.kind = "NSEC3_NXDOMAIN" /\ pc = "encloser"
    /\ self' = [self EXCEPT !.closest_encloser =
                    get_closest_encloser(inp.nsec_set_info, inp.qname, inp.origin)]
    /\ pc' = "covers"
    /\ UNCHANGED <<inp, loc>>

\* lines 942-948: NSEC3StatusWildcard._set_closest_encloser, which infers the
\* encloser from the wildcard when the view has none
NSEC3Wildcard_set_closest_encloser ==
    /\ inp.kind = "NSEC3_Wildcard" /\ pc = "encloser"
    /\ LET found == get_closest_encloser(inp.nsec_set_info, inp.qname, inp.origin)
       IN  self' = [self EXCEPT !.closest_encloser =
                        IF found = EmptyMap
                        THEN MapOf(parent(self.wildcard_name), {None})
                        ELSE found]
    /\ pc' = "covers"
    /\ UNCHANGED <<inp, loc>>

\* lines 743-754: the writes nsec_names_covering_qname[digest_name] = covering_names
NSEC3NXDOMAIN_qname_writes(s, i) ==
    LET view == i.nsec_set_info
        digest_name(e, g) ==
            digest_for(NSEC3_next_closest_encloser(i.qname, e), i.origin, g)
        covering_names(e, g) ==
            nsec3_covering_name(view, digest_name(e, g), g[1], g[2], g[3])
    IN  {<<digest_name(eg[1], eg[2]), covering_names(eg[1], eg[2])>> :
            eg \in {x \in (DOMAIN s.closest_encloser) \X (DOMAIN nsec3_params(view)) :
                      /\ digest_name(x[1], x[2]) # None
                      /\ covering_names(x[1], x[2]) # {}}}

\* a faulty variant of NSEC3NXDOMAIN_wildcard_writes: the hash looked up is
\* that of the next closer name
NSEC3NXDOMAIN_wildcard_writes_next_closer(s, i) == NSEC3NXDOMAIN_qname_writes(s, i)

\* lines 760-766: the writes nsec_names_covering_wildcard[digest_name] = covering_names
NSEC3NXDOMAIN_wildcard_writes(s, i) ==
    LET view == i.nsec_set_info
        digest_name(e, g) == digest_for(NSEC3_get_wildcard(e), i.origin, g)
        covering_names(e, g) ==
            nsec3_covering_name(view, digest_name(e, g), g[1], g[2], g[3])
    IN  {<<digest_name(eg[1], eg[2]), covering_names(eg[1], eg[2])>> :
            eg \in {x \in (DOMAIN s.closest_encloser) \X (DOMAIN nsec3_params(view)) :
                      /\ digest_name(x[1], x[2]) # None
                      /\ covering_names(x[1], x[2]) # {}}}

\* lines 734-770: the loops over the enclosers and the parameter groups
NSEC3NXDOMAIN_Covers ==
    /\ inp.kind \in {"NSEC3_NXDOMAIN", "NSEC3_Wildcard"} /\ pc = "covers"
    /\ \E cq \in dicts_written(NSEC3NXDOMAIN_qname_writes(self, inp)),
          cw \in dicts_written(NSEC3NXDOMAIN_wildcard_writes(self, inp)) :
         self' = [self EXCEPT !.nsec_names_covering_qname = cq,
                              !.nsec_names_covering_wildcard = cw]
    /\ pc' = "set_status"
    /\ UNCHANGED <<inp, loc>>

\* lines 836-842: the owners handed to project
NSEC3NXDOMAIN_projected(s, view) ==
    IF s.validation_status = NSEC_STATUS_VALID
    THEN UNION (values(s.closest_encloser) \cup values(s.nsec_names_covering_qname)
                   \cup values(s.nsec_names_covering_wildcard))
    ELSE owners(view)

\* a faulty variant of NSEC3NXDOMAIN_append_once: appended whatever errors holds
NSEC3NXDOMAIN_append_again(s, invalid_algs, invalid_alg_err) ==
    IF invalid_algs # {} THEN [s EXCEPT !.errors = Append(@, invalid_alg_err)] ELSE s

\* lines 831-832: the algorithm error is appended unless errors holds it already
NSEC3NXDOMAIN_append_once(s, invalid_algs, invalid_alg_err) ==
    IF invalid_algs # {} /\ \A k \in 1..Len(s.errors) : s.errors[k] # invalid_alg_err
    THEN [s EXCEPT !.errors = Append(@, invalid_alg_err)]
    ELSE s

\* a faulty variant of NSEC3NXDOMAIN_no_encloser: the semantic error is
\* recorded whether or not an algorithm is supported
NSEC3NXDOMAIN_no_encloser_unguarded(s, valid_algs, invalid_algs, invalid_alg_err) ==
    LET s1 == [s EXCEPT !.validation_status = NSEC_STATUS_INVALID,
                        !.errors = Append(@, Err("NoClosestEncloserNameError"))]
    IN  IF invalid_algs # {}
        THEN [s1 EXCEPT !.errors = Append(@, invalid_alg_err)] ELSE s1

\* lines 812-817: without a closest encloser the status is INVALID, the
\* semantic error is recorded when an algorithm is supported and the algorithm
\* error when one is not
NSEC3NXDOMAIN_no_encloser(s, valid_algs, invalid_algs, invalid_alg_err) ==
    LET s1 == [s EXCEPT !.validation_status = NSEC_STATUS_INVALID]
        s2 == IF valid_algs # {}
              THEN [s1 EXCEPT !.errors = Append(@, Err("NoClosestEncloserNameError"))]
              ELSE s1
    IN  IF invalid_algs # {}
        THEN [s2 EXCEPT !.errors = Append(@, invalid_alg_err)] ELSE s2

\* lines 805-842: NSEC3StatusNXDOMAIN._set_validation_status; encloser is the
\* one closest_encloser.items()[0] yields
NSEC3NXDOMAIN_set_validation_status ==
    /\ inp.kind = "NSEC3_NXDOMAIN" /\ pc = "set_status"
    /\ LET view == inp.nsec_set_info
           valid_algs == get_algorithm_support(view)[1]
           invalid_algs == get_algorithm_support(view)[2]
       IN  \E invalid_alg_err \in IF invalid_algs # {}
                                  THEN UnsupportedNSEC3Algorithm(invalid_algs)
                                  ELSE {None},
              encloser \in IF self.closest_encloser # EmptyMap
                           THEN DOMAIN self.closest_encloser ELSE {None} :
             LET s0 == [self EXCEPT !.validation_status = NSEC_STATUS_VALID]
                 invalid(s) == [s EXCEPT !.validation_status = NSEC_STATUS_INVALID]
                 add(s, cond, e) == IF cond THEN [s EXCEPT !.errors = Append(@, e)] ELSE s
                 n2 == NSEC3NXDOMAIN_no_encloser(s0, valid_algs, invalid_algs,
                                                 invalid_alg_err)
                 \* lines 819-825
                 q1 == IF s0.nsec_names_covering_qname = EmptyMap
                       THEN add(add(invalid(s0), valid_algs # {},
                                    [name |-> "NextClosestEncloserNotCoveredNameError",
                                     next_closest_encloser |->
                                         NSEC3_next_closest_encloser(inp.qname, encloser)]),
                                invalid_algs # {}, invalid_alg_err)
                       ELSE s0
                 \* lines 826-832
                 w1 == IF q1.nsec_names_covering_wildcard = EmptyMap
                       THEN add(invalid(q1), valid_algs # {},
                                [name |-> "WildcardNotCoveredNSEC3",
                                 wildcard |-> NSEC3_get_wildcard(encloser)])
                       ELSE q1
                 w2 == IF q1.nsec_names_covering_wildcard = EmptyMap
                       THEN NSEC3NXDOMAIN_append_once(w1, invalid_algs, invalid_alg_err)
                       ELSE w1
                 s3 == IF s0.closest_encloser = EmptyMap THEN n2 ELSE w2
             IN  self' = [s3 EXCEPT !.nsec_set_info =
                             project(view, NSEC3NXDOMAIN_projected(s3, view))]
    /\ pc' = "done"
    /\ UNCHANGED <<inp, loc>>

\* lines 979-985: the owners handed to project, the placeholder None filtered out
NSEC3Wildcard_projected(s, view) ==
    IF s.validation_status = NSEC_STATUS_VALID
    THEN {x \in UNION (values(s.closest_encloser)
                          \cup values(s.nsec_names_covering_qname)) : x # None}
    ELSE owners(view)

\* lines 957-985: NSEC3StatusWildcard._set_validation_status
NSEC3Wildcard_set_validation_status ==
    /\ inp.kind = "NSEC3_Wildcard" /\ pc = "set_status"
    /\ LET view == inp.nsec_set_info
           valid_algs == get_algorithm_support(view)[1]
           invalid_algs == get_algorithm_support(view)[2]
       IN  \E invalid_alg_err \in IF invalid_algs # {}
                                  THEN UnsupportedNSEC3Algorithm(invalid_algs)
                                  ELSE {None},
              encloser \in DOMAIN self.closest_encloser :
             LET s0 == [self EXCEPT !.validation_status = NSEC_STATUS_VALID]
                 invalid(s) == [s EXCEPT !.validation_status = NSEC_STATUS_INVALID]
                 add(s, cond, e) == IF cond THEN [s EXCEPT !.errors = Append(@, e)] ELSE s
                 next_closest_encloser == NSEC3_next_closest_encloser(inp.qname, encloser)
                 \* lines 959-970
                 q1 == IF s0.nsec_names_covering_qname = EmptyMap
                       THEN add(add(invalid(s0), valid_algs # {},
                                    [name |-> "NextClosestEncloserNotCoveredWildcardAnswer",
                                     next_closest_encloser |-> next_closest_encloser]),
                                invalid_algs # {}, invalid_alg_err)
                       ELSE s0
                 \* lines 972-975
                 w1 == IF q1.nsec_names_covering_wildcard # EmptyMap
                       THEN add(invalid(q1), TRUE,
                                [name |-> "WildcardCoveredAnswerNSEC3",
                                 next_closest_encloser |-> next_closest_encloser])
                       ELSE q1
             IN  self' = [w1 EXCEPT !.nsec_set_info =
                             project(view, NSEC3Wildcard_projected(w1, view))]
    /\ pc' = "done"
    /\ UNCHANGED <<inp, loc>>

\* a faulty variant of NSEC3Wildcard_inferred_from_wildcard: never inferred
NSEC3Wildcard_inferred_never(s, encloser_name) == FALSE

\* lines 997-1000: the flag of the serialized closest encloser
NSEC3Wildcard_inferred_from_wildcard(s, encloser_name) ==
    None \in s.closest_encloser[encloser_name]

\* lines 987-1002 with 863-876: NSEC3StatusWildcard.serialize as far as the
\* closest encloser goes.  At DEBUG the inherited serialize reads
\* name_digest_map[next_closest_encloser], which the loops of lines 743-770
\* fill once per parameter group: for a view without any NSEC3 record the
\* entry is missing and the read raises KeyError.  closest_encloser.items()[0]
\* and closest_encloser.values()[0] are whichever encloser the dict yields
\* first.
NSEC3Wildcard_serialize ==
    /\ inp.kind = "NSEC3_Wildcard" /\ pc = "done"
    /\ \E loglevel \in LogLevels, encloser_name \in DOMAIN self.closest_encloser :
         IF loglevel <= logging_DEBUG /\ nsec3_params(inp.nsec_set_info) = EmptyMap
         THEN /\ pc' = "raised"
              /\ loc' = [raised |-> "KeyError"]
         ELSE /\ pc' = "serialized"
              /\ loc' = [raised |-> "", loglevel |-> loglevel,
                         inferred_from_wildcard |->
                           IF loglevel <= logging_DEBUG
                           THEN Some(NSEC3Wildcard_inferred_from_wildcard(self, encloser_name))
                           ELSE None]
    /\ UNCHANGED <<inp, self>>

(***************************************************************************)
(* NSEC3StatusNoAnswer                                                      *)
(***************************************************************************)
\* lines 1005-1029: the attributes before the loops
NSEC3NoAnswerStart(i) ==
    [warnings |-> <<>>, errors |-> <<>>,
     referral |-> i.nsec_set_info.referral,
     wildcard_name |-> None,
     closest_encloser |-> get_closest_encloser(i.nsec_set_info, i.qname, i.origin),
     nsec_names_covering_qname |-> EmptyMap,
     nsec_names_covering_wildcard |-> EmptyMap,
     nsec_for_qname |-> {}, nsec_for_wildcard_name |-> {},
     has_rdtype |-> FALSE, has_cname |-> FALSE, has_ns |-> FALSE,
     has_ds |-> FALSE, has_soa |-> FALSE, opt_out |-> FALSE,
     wildcard_has_rdtype |-> FALSE, wildcard_has_cname |-> FALSE,
     validation_status |-> UNSET,
     nsec_set_info |-> None]

\* lines 1059-1070: the writes nsec_names_covering_qname[digest_name] = covering_names,
\* made for the groups that hold no NSEC3 at the hash of qname
NSEC3NoAnswer_qname_writes(s, i) ==
    LET view == i.nsec_set_info
        groups == nsec3_params(view)
        digest_name(e, g) ==
            digest_for(NSEC3_next_closest_encloser(i.qname, e), i.origin, g)
        covering_names(e, g) ==
            nsec3_covering_name(view, digest_name(e, g), g[1], g[2], g[3])
    IN  {<<digest_name(eg[1], eg[2]), covering_names(eg[1], eg[2])>> :
            eg \in {x \in (DOMAIN s.closest_encloser) \X (DOMAIN groups) :
                      /\ digest_for(i.qname, i.origin, x[2]) \notin groups[x[2]]
                      /\ digest_name(x[1], x[2]) # None
                      /\ covering_names(x[1], x[2]) # {}}}

\* lines 1031-1070: the loops over the parameter groups and the enclosers
NSEC3NoAnswer_Match ==
    /\ inp.kind = "NSEC3_NoAnswer" /\ pc = "covers"
    /\ LET view == inp.nsec_set_info
           groups == nsec3_params(view)
           \* lines 1037-1043
           for_wildcard ==
               {digest_for(NSEC3_get_wildcard(eg[1]), inp.origin, eg[2]) :
                  eg \in {x \in (DOMAIN self.closest_encloser) \X (DOMAIN groups) :
                            digest_for(NSEC3_get_wildcard(x[1]), inp.origin, x[2])
                                \in groups[x[2]]}}
           \* lines 1050-1057
           for_qname ==
               {digest_for(inp.qname, inp.origin, g) :
                  g \in {h \in DOMAIN groups :
                           digest_for(inp.qname, inp.origin, h) \in groups[h]}}
           has(names, rdtype) ==
               \E n \in names : rdtype_exists_in_bitmap(view, n, rdtype)
       IN  \E cq \in dicts_written(NSEC3NoAnswer_qname_writes(self, inp)) :
             self' = [self EXCEPT
                        !.nsec_for_wildcard_name = for_wildcard,
                        !.wildcard_has_rdtype = has(for_wildcard, inp.rdtype),
                        !.wildcard_has_cname = has(for_wildcard, RD_CNAME),
                        !.nsec_for_qname = for_qname,
                        !.has_rdtype = has(for_qname, inp.rdtype),
                        !.has_cname = has(for_qname, RD_CNAME),
                        !.has_ns = has(for_qname, RD_NS),
                        !.has_ds = has(for_qname, RD_DS),
                        !.has_soa = has(for_qname, RD_SOA),
                        !.nsec_names_covering_qname = cq]
    /\ pc' = "set_status"
    /\ UNCHANGED <<inp, loc>>

NSEC3NoAnswer_projected_cited(s, view) ==
    UNION values(s.closest_encloser)
    \cup (IF s.nsec_for_qname # {} THEN s.nsec_for_qname
          ELSE UNION values(s.nsec_names_covering_qname))
    \cup s.nsec_for_wildcard_name

\* lines 1157-1170: the owners handed to project
NSEC3NoAnswer_projected(s, view) ==
    IF s.validation_status = NSEC_STATUS_VALID
    THEN UNION values(s.closest_encloser)
         \cup (IF s.nsec_for_qname # {} THEN s.nsec_for_qname
               ELSE UNION values(s.nsec_names_covering_qname))
         \cup s.nsec_for_wildcard_name
    ELSE owners(view)

\* line 1127 reads the name next_closest_encloser, which the method never binds
\* (NameError); line 1132 calls canonicalize() on self.wildcard_name, which is
\* None since line 1010 (AttributeError).  The exception the wildcard branch
\* of lines 1123-1132 raises for the state s, or "" when it raises none.
NSEC3NoAnswer_raises(s, valid_algs) ==
    IF s.nsec_for_qname = {} /\ s.nsec_for_wildcard_name # {}
    THEN IF s.nsec_names_covering_qname = EmptyMap /\ valid_algs # {}
         THEN "NameError"
         ELSE IF s.wildcard_has_rdtype THEN "AttributeError" ELSE ""
    ELSE ""

\* a faulty variant of NSEC3NoAnswer_bitmap_rules: the CNAME bit is not tested
NSEC3NoAnswer_bitmap_rules_no_cname(s, rdtype) ==
    IF s.has_rdtype
    THEN [s EXCEPT !.validation_status = NSEC_STATUS_INVALID,
                   !.errors = Append(@, [name |-> "StypeInBitmapNoDataNSEC3",
                                         stype |-> rdtype])]
    ELSE s

\* lines 1116-1122: neither the query type nor CNAME is in the bitmap of the
\* NSEC3 at the hash of qname
NSEC3NoAnswer_bitmap_rules(s, rdtype) ==
    LET fail(t, cond, e) ==
            IF cond THEN [t EXCEPT !.validation_status = NSEC_STATUS_INVALID,
                                   !.errors = Append(@, e)]
            ELSE t
        n1 == fail(s, s.has_rdtype,
                   [name |-> "StypeInBitmapNoDataNSEC3", stype |-> rdtype])
    IN  fail(n1, n1.has_cname,
             [name |-> "StypeInBitmapNoDataNSEC3", stype |-> RD_CNAME])

\* lines 1096-1170: NSEC3StatusNoAnswer._set_validation_status
NSEC3NoAnswer_set_validation_status ==
    /\ inp.kind = "NSEC3_NoAnswer" /\ pc = "set_status"
    /\ LET view == inp.nsec_set_info
           valid_algs == get_algorithm_support(view)[1]
           invalid_algs == get_algorithm_support(view)[2]
       IN  \E invalid_alg_err \in IF invalid_algs # {}
                                  THEN UnsupportedNSEC3Algorithm(invalid_algs)
                                  ELSE {None} :
             LET s0 == [self EXCEPT !.validation_status = NSEC_STATUS_VALID]
                 invalid(s) == [s EXCEPT !.validation_status = NSEC_STATUS_INVALID]
                 add(s, cond, e) == IF cond THEN [s EXCEPT !.errors = Append(@, e)] ELSE s
                 fail(s, cond, e) == IF cond THEN invalid(add(s, TRUE, e)) ELSE s
                 \* lines 1105-1114
                 r1 == fail(s0, ~s0.has_ns, Err("ReferralWithoutNSBitNSEC3"))
                 r2 == fail(r1, r1.has_ds, Err("ReferralWithDSBitNSEC3"))
                 r3 == fail(r2, r2.has_soa, Err("ReferralWithSOABitNSEC3"))
                 n2 == NSEC3NoAnswer_bitmap_rules(s0, inp.rdtype)
                 \* lines 1123-1132, as far as they run
                 w1 == IF s0.nsec_names_covering_qname = EmptyMap
                       THEN IF valid_algs # {}
                            THEN invalid(s0)
                            ELSE add(invalid(s0), invalid_algs # {}, invalid_alg_err)
                       ELSE s0
                 w2 == IF NSEC3NoAnswer_raises(s0, valid_algs) = "AttributeError"
                       THEN invalid(w1) ELSE w1
                 \* lines 1133-1143
                 covering == UNION values(s0.nsec_names_covering_qname)
                 o1 == [s0 EXCEPT !.opt_out =
                           \E nsec_name \in covering :
                               view.rrsets[nsec_name].flags % 2 = 1]
                 o2 == IF ~o1.opt_out
                       THEN add(add(invalid(o1), valid_algs # {},
                                    Err("NoNSEC3MatchingSnameDSNoData")),
                                invalid_algs # {}, invalid_alg_err)
                       ELSE o1
                 \* lines 1144-1153
                 e1 == add(add(invalid(s0), valid_algs # {},
                               IF inp.rdtype = RD_DS
                               THEN Err("NoNSEC3MatchingSnameDSNoData")
                               ELSE Err("NoNSEC3MatchingSnameNoData")),
                           invalid_algs # {}, invalid_alg_err)
                 s4 == IF s0.nsec_for_qname # {}
                       THEN (IF inp.rdtype = RD_DS \/ s0.referral THEN r3 ELSE n2)
                       ELSE IF s0.nsec_for_wildcard_name # {}
                       THEN w2
                       ELSE IF inp.rdtype = RD_DS /\ s0.nsec_names_covering_qname # EmptyMap
                       THEN o2
                       ELSE e1
                 raised == NSEC3NoAnswer_raises(s0, valid_algs)
             IN  IF raised # ""
                 THEN /\ self' = s4
                      /\ pc' = "raised"
                      /\ loc' = [loc EXCEPT !.raised = raised]
                 ELSE /\ self' = [s4 EXCEPT !.nsec_set_info =
                                     project(view, NSEC3NoAnswer_projected(s4, view))]
                      /\ pc' = "done"
                      /\ loc' = loc
    /\ UNCHANGED inp

(***************************************************************************)
(* The NSEC3 evaluators as one specification.                              *)
(***************************************************************************)
\* the query names the NSEC3 evaluators are given
NSEC3QNames == {<<"a", "z">>, <<"a", "a", "z">>}

\* the locals of the constructor: the exception that ended it, "" for none
NSEC3Locals == [raised |-> ""]

\* the arguments of NSEC3StatusNXDOMAIN(qname, rdtype, origin, nsec_set_info);
\* the constructor reads no type bitmap and no flag
InitNSEC3NXDOMAIN ==
    \E q \in NSEC3QNames, c \in NSEC3Chains :
      \E par \in [DOMAIN c -> NSEC3ParamsUniverse] :
        /\ inp = [kind |-> "NSEC3_NXDOMAIN", qname |-> q, origin |-> Origin,
                  nsec_set_info |-> NSEC3View(c, par, {}, {}, FALSE)]
        /\ pc = "encloser"
        /\ self = NSEC3NXDOMAINStart(inp)
        /\ loc = NSEC3Locals

\* the arguments of NSEC3StatusWildcard(qname, wildcard_name, rdtype, origin,
\* nsec_set_info): the wildcard of an ancestor of qname
InitNSEC3Wildcard ==
    \E q \in NSEC3QNames, c \in NSEC3Chains :
      \E par \in [DOMAIN c -> NSEC3ParamsUniverse], a \in ancestors(q, Origin) :
        /\ inp = [kind |-> "NSEC3_Wildcard", qname |-> q,
                  wildcard_name |-> from_text_wild(a), origin |-> Origin,
                  nsec_set_info |-> NSEC3View(c, par, {}, {}, FALSE)]
        /\ pc = "encloser"
        /\ self = NSEC3NXDOMAINStart(inp)
        /\ loc = NSEC3Locals

\* the bitmap bits the status rule of NSEC3StatusNoAnswer reads: those of an
\* NSEC3 at the hash of qname (NS, DS and SOA for a referral or a DS query,
\* rdtype and CNAME otherwise) and the rdtype bit of an NSEC3 at the hash of a
\* wildcard of an ancestor of qname; the model leaves every other bit unset
NSEC3NoAnswer_bits_read(q, rdtype, referral, chain, par) ==
    {ot \in (DOMAIN chain) \X {RD_A, RD_NS, RD_CNAME, RD_SOA, RD_DS} :
        \/ /\ ot[1] = digest_for(q, Origin, par[ot[1]])
           /\ ot[2] \in IF rdtype = RD_DS \/ referral THEN {RD_NS, RD_DS, RD_SOA}
                                                    ELSE {rdtype, RD_CNAME}
        \/ /\ \E a \in ancestors(q, Origin) :
                  ot[1] = digest_for(from_text_wild(a), Origin, par[ot[1]])
           /\ ot[2] = rdtype}

\* the arguments of NSEC3StatusNoAnswer(qname, rdtype, origin, nsec_set_info);
\* the opt-out flag is read for a DS query only
InitNSEC3NoAnswer ==
    \E q \in NSEC3QNames, t \in {RD_A, RD_DS}, r \in BOOLEAN, c \in NSEC3Chains :
      \E par \in [DOMAIN c -> NSEC3ParamsUniverse] :
        \E bits \in SUBSET NSEC3NoAnswer_bits_read(q, t, r, c, par),
           optout \in SUBSET (IF t = RD_DS THEN DOMAIN c ELSE {}) :
          /\ inp = [kind |-> "NSEC3_NoAnswer", qname |-> q, rdtype |-> t,
                    origin |-> Origin,
                    nsec_set_info |-> NSEC3View(c, par, bits, optout, r)]
          /\ pc = "covers"
          /\ self = NSEC3NoAnswerStart(inp)
          /\ loc = NSEC3Locals

InitNSEC3 == InitNSEC3NXDOMAIN \/ InitNSEC3Wildcard \/ InitNSEC3NoAnswer

NextNSEC3 ==
    \/ NSEC3NXDOMAIN_set_closest_encloser
    \/ NSEC3Wildcard_set_closest_encloser
    \/ NSEC3NXDOMAIN_Covers
    \/ NSEC3NXDOMAIN_set_validation_status
    \/ NSEC3Wildcard_set_validation_status
    \/ NSEC3NoAnswer_Match
    \/ NSEC3NoAnswer_set_validation_status

SpecNSEC3 == InitNSEC3 /\ [][NextNSEC3]_vars

\* NSEC3StatusWildcard from construction to serialization
NextNSEC3Wildcard ==
    \/ NSEC3Wildcard_set_closest_encloser
    \/ NSEC3NXDOMAIN_Covers
    \/ NSEC3Wildcard_set_validation_status
    \/ NSEC3Wildcard_serialize

SpecNSEC3Wildcard == InitNSEC3Wildcard /\ [][NextNSEC3Wildcard]_vars

(***************************************************************************)
(* The six denial-of-existence evaluators as one specification.            *)
(***************************************************************************)
InitDenial == InitNSEC \/ InitNSEC3

NextDenial == NextNSEC \/ NextNSEC3

SpecDenial == InitDenial /\ [][NextDenial]_vars

(***************************************************************************)
(* Properties of RRSIGStatus and DSStatus.                                  *)
(***************************************************************************)
IsSig == inp.kind \in {"RRSIG", "DS"}
SigDone == IsSig /\ pc = "done"

\* the conditions of the checks, read off the arguments
keying_fails(i) ==
    IF i.kind = "RRSIG"
    THEN i.dnskey = None \/ i.validate_rrsig = None \/ i.algorithm_unknown
    ELSE i.dnskey = None \/ i.validate_ds_digest = None \/ i.digest_algorithm_unknown

revoked(i) ==
    /\ i.dnskey # None
    /\ flag_set(Val(i.dnskey).flags, DNSKEY_FLAG_REVOKE)
    /\ i.kind = "RRSIG" => i.rrsig.covers # RD_DNSKEY

record_key_tag(i) == IF i.kind = "RRSIG" THEN i.rrsig.key_tag ELSE i.ds.key_tag

verification_fails(i) ==
    /\ i.dnskey # None
    /\ IF i.kind = "RRSIG"
       THEN ~i.algorithm_unknown /\ i.validate_rrsig = Some(FALSE)
       ELSE ~i.digest_algorithm_unknown /\ i.validate_ds_digest = Some(FALSE)
    /\ Val(i.dnskey).key_tag = record_key_tag(i)

ttl_findings(i) ==
    i.kind = "RRSIG" /\ (i.rrset.ttl # i.rrsig_info_ttl
                          \/ i.rrsig_info_ttl > i.rrsig.original_ttl)

ttl_beyond_expiration(i) ==
    /\ i.reference_ts < i.rrsig.expiration
    /\ i.reference_ts + Min(i.rrset.ttl, Min(i.rrsig_info_ttl, i.rrsig.original_ttl))
           >= i.rrsig.expiration

\* the status set by the first check, in the order of the constructor, that fails
first_failing_status(i) ==
    IF keying_fails(i)
    THEN IF i.dnskey = None THEN RRSIG_STATUS_INDETERMINATE_NO_DNSKEY
                            ELSE RRSIG_STATUS_INDETERMINATE_UNKNOWN_ALGORITHM
    ELSE IF i.kind = "RRSIG" /\ signer_not_zone(i) THEN RRSIG_STATUS_INVALID
    ELSE IF revoked(i)
    THEN IF Val(i.dnskey).key_tag # record_key_tag(i)
         THEN RRSIG_STATUS_INDETERMINATE_MATCH_PRE_REVOKE
         ELSE RRSIG_STATUS_INVALID
    ELSE IF i.kind = "RRSIG" /\ i.reference_ts < i.rrsig.inception
    THEN RRSIG_STATUS_PREMATURE
    ELSE IF i.kind = "RRSIG" /\ i.reference_ts >= i.rrsig.expiration
    THEN RRSIG_STATUS_EXPIRED
    ELSE IF verification_fails(i)
    THEN IF i.kind = "RRSIG" THEN RRSIG_STATUS_INVALID_SIG ELSE DS_STATUS_INVALID_DIGEST
    ELSE STATUS_VALID

\* the check the constructor is about to run finds its condition
check_at_pc_fails ==
    CASE pc = "keying" -> keying_fails(inp)
      [] pc = "ttl" -> ttl_findings(inp)
      [] pc = "signer" -> signer_not_zone(inp)
      [] pc = "revoke" -> revoked(inp)
      [] pc = "window" -> \/ inp.reference_ts < inp.rrsig.inception
                          \/ inp.reference_ts >= inp.rrsig.expiration
                          \/ ttl_beyond_expiration(inp)
      [] pc = "verdict" -> verification_fails(inp)
      [] OTHER -> FALSE

\* the revocation check in its key-tag-mismatch branch, which has no finding
pre_revoke_at_pc ==
    pc = "revoke" /\ revoked(inp) /\ Val(inp.dnskey).key_tag # record_key_tag(inp)

findings(s) == Len(s.warnings) + Len(s.errors)

\* C1 as stated: once validation_status has left VALID no later check assigns
\* it, the final status is the one of the first failing check, and every
\* later failing check appends a warning or an error.
C1_AsStated ==
    /\ [][(IsSig /\ self.validation_status # STATUS_VALID)
            => /\ self.validation_status' = self.validation_status
               /\ check_at_pc_fails => findings(self') > findings(self)]_vars
    /\ [](SigDone => self.validation_status = first_failing_status(inp))

\* C1, amended: once validation_status has left VALID no later check assigns
\* it, the final status is the one of the first failing check, and every
\* later failing check appends a warning or an error, except the revocation
\* check when the key tags differ (INDETERMINATE_MATCH_PRE_REVOKE), which
\* records nothing.  The verdict counts as failing when verification is false
\* and the key tags are equal (lines 206-208 and 300-302).
C1_Precedence ==
    /\ [][(IsSig /\ self.validation_status # STATUS_VALID)
            => /\ self.validation_status' = self.validation_status
               /\ (check_at_pc_fails /\ ~pre_revoke_at_pc)
                     => findings(self') > findings(self)]_vars
    /\ [](SigDone => self.validation_status = first_failing_status(inp))

\* a signature whose algorithm is unknown, and whose later signer and window
\* checks both failed and recorded their errors
C1_Witness ==
    /\ inp.kind = "RRSIG" /\ pc = "done"
    /\ self.validation_status = RRSIG_STATUS_INDETERMINATE_UNKNOWN_ALGORITHM
    /\ {"SignerNotZone", "InceptionInFuture"} \subseteq Names(self.errors)

\* C2: with a DNSKEY, a supported algorithm and a definite verification
\* result, a signer out of scope together with reference_ts >= expiration
\* gives INVALID (not EXPIRED) and both SignerNotZone and ExpirationInPast.
C2_Case ==
    /\ inp.kind = "RRSIG" /\ pc = "done"
    /\ inp.dnskey # None /\ ~inp.algorithm_unknown /\ inp.validate_rrsig # None
    /\ \/ inp.zone_name # None /\ inp.rrsig.signer # Val(inp.zone_name)
       \/ inp.zone_name = None /\ ~is_subdomain(inp.rrset.name, inp.rrsig.signer)
    /\ inp.reference_ts >= inp.rrsig.expiration

C2_SignerBeforeWindow ==
    C2_Case => /\ self.validation_status = RRSIG_STATUS_INVALID
               /\ {"SignerNotZone", "ExpirationInPast"} \subseteq Names(self.errors)

\* the case of C2 with the zone unknown and the owner outside the signer
C2_Witness == C2_Case /\ inp.zone_name = None

INDETERMINATE_STATUSES ==
    {RRSIG_STATUS_INDETERMINATE_NO_DNSKEY, RRSIG_STATUS_INDETERMINATE_MATCH_PRE_REVOKE,
     RRSIG_STATUS_INDETERMINATE_UNKNOWN_ALGORITHM}

\* C3 as stated: a status other than VALID has errors, a VALID one has none.
C3_AsStated ==
    SigDone => /\ self.validation_status # STATUS_VALID => self.errors # <<>>
               /\ self.validation_status = STATUS_VALID => self.errors = <<>>

\* C3, amended: a status that is neither VALID nor one of the three
\* INDETERMINATE statuses has errors; a VALID status has no errors other than
\* OriginalTTLExceeded and TTLBeyondExpiration (none at all for DSStatus).
C3_ErrorParity ==
    SigDone =>
        /\ self.validation_status \notin ({STATUS_VALID} \cup INDETERMINATE_STATUSES)
              => self.errors # <<>>
        /\ self.validation_status = STATUS_VALID
              => Names(self.errors) \subseteq
                    (IF inp.kind = "RRSIG"
                     THEN {"OriginalTTLExceeded", "TTLBeyondExpiration"} ELSE {})

\* a VALID signature that carries an error
C3_Witness ==
    /\ inp.kind = "RRSIG" /\ pc = "done"
    /\ self.validation_status = STATUS_VALID
    /\ "TTLBeyondExpiration" \in Names(self.errors)

\* C10: for a DS whose DNSKEY has the revoke bit and whose digest algorithm is
\* supported: with different key tags the status is
\* INDETERMINATE_MATCH_PRE_REVOKE and errors is empty, whether or not the
\* digest verifies; with equal key tags and a verifying digest the status is
\* INVALID and errors is exactly [DNSKEYRevokedDS].
C10_Case ==
    /\ inp.kind = "DS" /\ pc = "done"
    /\ inp.dnskey # None /\ flag_set(Val(inp.dnskey).flags, DNSKEY_FLAG_REVOKE)
    /\ ~inp.digest_algorithm_unknown /\ inp.validate_ds_digest # None

C10_RevokedDS ==
    C10_Case =>
        /\ Val(inp.dnskey).key_tag # inp.ds.key_tag
              => /\ self.validation_status = DS_STATUS_INDETERMINATE_MATCH_PRE_REVOKE
                 /\ self.errors = <<>>
        /\ (Val(inp.dnskey).key_tag = inp.ds.key_tag
               /\ inp.validate_ds_digest = Some(TRUE))
              => /\ self.validation_status = DS_STATUS_INVALID
                 /\ self.errors = <<Err("DNSKEYRevokedDS")>>

\* a revoked key with another key tag whose digest does not verify
C10_Witness ==
    /\ C10_Case
    /\ Val(inp.dnskey).key_tag # inp.ds.key_tag
    /\ inp.validate_ds_digest = Some(FALSE)

(***************************************************************************)
(* Properties of the NSEC and NSEC3 evaluators.                             *)
(***************************************************************************)
IsNSEC == inp.kind \in {"NSEC_NXDOMAIN", "NSEC_Wildcard", "NSEC_NoAnswer"}
IsNSEC3 == inp.kind \in {"NSEC3_NXDOMAIN", "NSEC3_Wildcard", "NSEC3_NoAnswer"}

\* the constructor returned an object
Constructed == pc = "done"

\* C4 as stated: for every NSEC3 evaluator and every pair of valid_algs and
\* invalid_algs the view reports, both empty included, the status is INVALID
\* if and only if errors is non-empty.
C4_AsStated ==
    (IsNSEC3 /\ Constructed)
        => (self.validation_status = NSEC_STATUS_INVALID <=> self.errors # <<>>)

\* C5: for every NSEC evaluator the status is INVALID if and only if errors is
\* non-empty, at every point of the construction: no error is recorded without
\* INVALID and INVALID is never set without an error.
C5_ErrorParity ==
    IsNSEC => (self.validation_status = NSEC_STATUS_INVALID <=> self.errors # <<>>)

\* an NSEC no-data proof for a referral that failed two of its rules
C5_Witness ==
    /\ inp.kind = "NSEC_NoAnswer" /\ Constructed
    /\ self.validation_status = NSEC_STATUS_INVALID
    /\ {"ReferralWithoutNSBitNSEC", "ReferralWithSOABitNSEC"} \subseteq Names(self.errors)

\* the wildcard branch of NSEC3StatusNoAnswer: no NSEC3 at the hash of qname,
\* an NSEC3 at the hash of the wildcard of a closest encloser
C6_Case ==
    /\ inp.kind = "NSEC3_NoAnswer"
    /\ pc \in {"set_status", "done", "raised"}
    /\ self.nsec_for_qname = {} /\ self.nsec_for_wildcard_name # {}

\* C6 as stated: in the wildcard branch the construction of NSEC3StatusNoAnswer
\* completes without raising, and the object is INVALID with
\* NextClosestEncloserNotCoveredWildcardNoData when no NSEC3 covers the
\* next-closer hash and a valid algorithm exists, INVALID with
\* StypeInBitmapWildcardNoDataNSEC3 when the wildcard bitmap has rdtype, and
\* VALID otherwise.
C6_AsStated ==
    C6_Case =>
        /\ pc # "raised"
        /\ Constructed =>
            LET uncovered == /\ self.nsec_names_covering_qname = EmptyMap
                             /\ get_algorithm_support(inp.nsec_set_info)[1] # {}
            IN  /\ uncovered =>
                     /\ self.validation_status = NSEC_STATUS_INVALID
                     /\ "NextClosestEncloserNotCoveredWildcardNoData"
                            \in Names(self.errors)
                /\ self.wildcard_has_rdtype =>
                     /\ self.validation_status = NSEC_STATUS_INVALID
                     /\ "StypeInBitmapWildcardNoDataNSEC3" \in Names(self.errors)
                /\ (~uncovered /\ ~self.wildcard_has_rdtype) =>
                     self.validation_status = NSEC_STATUS_VALID

\* the owners of the view an evaluator was given, and of the one it retains
input_owners == owners(inp.nsec_set_info)
retained_owners == owners(self.nsec_set_info)

\* C7: for all six evaluators, a constructed object whose status is not VALID
\* retains exactly the owners of the input view.
C7_FullViewOnFailure ==
    ((IsNSEC \/ IsNSEC3) /\ Constructed /\ self.validation_status # NSEC_STATUS_VALID)
        => retained_owners = input_owners

\* an INVALID NSEC3 no-data proof over a view of two NSEC3 records
C7_Witness ==
    /\ inp.kind = "NSEC3_NoAnswer" /\ Constructed
    /\ self.validation_status = NSEC_STATUS_INVALID
    /\ Cardinality(input_owners) = 2
    /\ retained_owners = input_owners

\* the owners the evidence fields of an evaluator cite
cited_owners ==
    CASE inp.kind \in {"NSEC_NXDOMAIN", "NSEC_Wildcard"} ->
            UNION (values(self.nsec_names_covering_qname)
                      \cup values(self.nsec_names_covering_wildcard))
      [] inp.kind = "NSEC_NoAnswer" ->
            UNION values(self.nsec_names_covering_qname)
            \cup (IF self.nsec_for_qname # None THEN {Val(self.nsec_for_qname)} ELSE {})
            \cup (IF self.nsec_for_wildcard_name # None
                  THEN {Val(self.nsec_for_wildcard_name)} ELSE {})
      [] inp.kind \in {"NSEC3_NXDOMAIN", "NSEC3_Wildcard"} ->
            UNION (values(self.closest_encloser)
                      \cup values(self.nsec_names_covering_qname)
                      \cup values(self.nsec_names_covering_wildcard))
      [] inp.kind = "NSEC3_NoAnswer" ->
            UNION (values(self.closest_encloser)
                      \cup values(self.nsec_names_covering_qname)
                      \cup values(self.nsec_names_covering_wildcard))
            \cup self.nsec_for_qname \cup self.nsec_for_wildcard_name

\* C8: for all six evaluators, every owner a constructed VALID object retains
\* is an owner of the input view and is cited by one of the evidence fields;
\* the None placeholder of an inferred closest encloser is not among the
\* owners NSEC3StatusWildcard hands to project.
C8_CitedViewOnSuccess ==
    ((IsNSEC \/ IsNSEC3) /\ Constructed /\ self.validation_status = NSEC_STATUS_VALID)
        => /\ retained_owners \subseteq input_owners
           /\ retained_owners \subseteq cited_owners
           /\ inp.kind = "NSEC3_Wildcard"
                 => None \notin NSEC3Wildcard_projected(self, inp.nsec_set_info)

\* a VALID NSEC3 wildcard proof whose closest encloser was inferred from the
\* wildcard, and which retains less than the input view
C8_Witness ==
    /\ inp.kind = "NSEC3_Wildcard" /\ Constructed
    /\ self.validation_status = NSEC_STATUS_VALID
    /\ None \in UNION values(self.closest_encloser)
    /\ retained_owners # input_owners

\* C9: a VALID NSECStatusNXDOMAIN retains exactly the owners of the NSEC
\* records covering qname and of those covering the wildcard name it selected.
C9_RetainedOnValid ==
    (inp.kind = "NSEC_NXDOMAIN" /\ Constructed
        /\ self.validation_status = NSEC_STATUS_VALID)
        => retained_owners =
              nsec_covering_name(inp.nsec_set_info, inp.qname)
              \cup nsec_covering_name(inp.nsec_set_info, self.wildcard_name)

\* a VALID NXDOMAIN proof that leaves an NSEC record of the input view out
C9_Witness ==
    /\ inp.kind = "NSEC_NXDOMAIN" /\ Constructed
    /\ self.validation_status = NSEC_STATUS_VALID
    /\ retained_owners # input_owners
    /\ retained_owners # {}

(***************************************************************************)
(* The opt-out mode of NSEC3StatusNoAnswer.                                *)
(***************************************************************************)
\* the construction has ended, by returning or by raising
Ended == pc \in {"done", "raised"}

\* an NSEC3 record that covers the hash of a next closer name of qname carries
\* the opt-out flag, and no NSEC3 owner is the hash of qname
opt_out_covered ==
    /\ inp.kind = "NSEC3_NoAnswer" /\ inp.rdtype = RD_DS
    /\ self.nsec_for_qname = {}
    /\ \E nsec_name \in UNION values(self.nsec_names_covering_qname) :
           inp.nsec_set_info.rrsets[nsec_name].flags % 2 = 1

\* C11: for NSEC3StatusNoAnswer with rdtype DS, whenever no NSEC3 owner is the
\* hash of qname and an NSEC3 record covering a next closer hash carries the
\* opt-out flag, the construction returns an object whose status is VALID and
\* whose opt_out is true.
C11_AsStated ==
    (Ended /\ opt_out_covered)
        => /\ Constructed
           /\ self.validation_status = NSEC_STATUS_VALID
           /\ self.opt_out

\* what the code does keep: without an NSEC3 at the hash of a wildcard of a
\* closest encloser, the opt-out rule of lines 1133-1143 is the one that runs
C11_OptOutBranch ==
    (Ended /\ opt_out_covered /\ self.nsec_for_wildcard_name = {})
        => /\ Constructed
           /\ self.validation_status = NSEC_STATUS_VALID
           /\ self.opt_out

(***************************************************************************)
(* Unsupported NSEC3 algorithms.                                           *)
(***************************************************************************)
valid_algs_of_input == get_algorithm_support(inp.nsec_set_info)[1]

invalid_algs_of_input == get_algorithm_support(inp.nsec_set_info)[2]

\* how many times the list holds an error of the given name
occurrences(list, name) == Cardinality({k \in 1..Len(list) : list[k].name = name})

\* C12: for NSEC3StatusNXDOMAIN, when the view reports no valid algorithm and
\* at least one invalid algorithm, the status is INVALID and errors is the one
\* UnsupportedNSEC3Algorithm error: none of NoClosestEncloserNameError,
\* NextClosestEncloserNotCoveredNameError and WildcardNotCoveredNSEC3 is
\* recorded.
C12_OnlyAlgorithmError ==
    (inp.kind = "NSEC3_NXDOMAIN" /\ Constructed
        /\ valid_algs_of_input = {} /\ invalid_algs_of_input # {})
        => /\ self.validation_status = NSEC_STATUS_INVALID
           /\ Len(self.errors) = 1
           /\ self.errors[1] \in UnsupportedNSEC3Algorithm(invalid_algs_of_input)

\* an NXDOMAIN proof over two NSEC3 records, both of an unsupported algorithm
C12_Witness ==
    /\ inp.kind = "NSEC3_NXDOMAIN" /\ Constructed
    /\ valid_algs_of_input = {} /\ invalid_algs_of_input # {}
    /\ Cardinality(owners(inp.nsec_set_info)) = 2
    /\ Names(self.errors) = {"UnsupportedNSEC3Algorithm"}

(***************************************************************************)
(* Independence of the iteration order of the view's collections.          *)
(***************************************************************************)
\* the errors of the list, as a set
recorded(list) == {list[k] : k \in 1..Len(list)}

\* C13: the outcome of an evaluator (status, errors with their fields, retained
\* owners) is the same whichever member the code takes from a collection of
\* the view: every error LastNSECNextNotZone that an owner covering the origin
\* gives is the one recorded, every UnsupportedNSEC3Algorithm error that an
\* invalid algorithm gives is the one recorded, and every NSEC record the
\* empty-non-terminal fallback of NSECStatusNoAnswer could select leaves the
\* same owners retained.
C13_AsStated ==
    /\ (IsNSEC /\ Constructed /\ "LastNSECNextNotZone" \in Names(self.errors))
          => LastNSECNextNotZone(inp.nsec_set_info, self.nsec_names_covering_origin)
                \subseteq recorded(self.errors)
    /\ (IsNSEC3 /\ Ended /\ "UnsupportedNSEC3Algorithm" \in Names(self.errors))
          => UnsupportedNSEC3Algorithm(invalid_algs_of_input)
                \subseteq recorded(self.errors)
    /\ (inp.kind = "NSEC_NoAnswer" /\ Constructed
           /\ inp.qname \notin input_owners)
          => \A nsec_name \in NSECNoAnswer_fallback(inp.nsec_set_info, inp.qname) :
                NSECNoAnswer_projected(
                    [self EXCEPT !.nsec_for_qname = Some(nsec_name)],
                    inp.nsec_set_info) = retained_owners

\* the part that concerns the error LastNSECNextNotZone alone
C13_OriginOwner ==
    (IsNSEC /\ Constructed /\ "LastNSECNextNotZone" \in Names(self.errors))
        => LastNSECNextNotZone(inp.nsec_set_info, self.nsec_names_covering_origin)
              \subseteq recorded(self.errors)

\* the part that concerns the fallback of NSECStatusNoAnswer alone
C13_Fallback ==
    (inp.kind = "NSEC_NoAnswer" /\ Constructed /\ inp.qname \notin input_owners)
        => \A nsec_name \in NSECNoAnswer_fallback(inp.nsec_set_info, inp.qname) :
              NSECNoAnswer_projected(
                  [self EXCEPT !.nsec_for_qname = Some(nsec_name)],
                  inp.nsec_set_info) = retained_owners

(***************************************************************************)
(* CNAMEFromDNAMEStatus                                                     *)
(***************************************************************************)
DNAME_STATUS_VALID == STATUS_VALID
DNAME_STATUS_INVALID_TARGET == 2
DNAME_STATUS_INVALID == 3

\* lines 135-140: dname_status_mapping, for the statuses the constructor assigns
dname_status_mapping(status) ==
    CASE status = DNAME_STATUS_VALID -> "VALID"
      [] status = DNAME_STATUS_INVALID_TARGET -> "INVALID_TARGET"
      [] status = DNAME_STATUS_INVALID -> "INVALID"

\* the targets a CNAME record of the model points to
CNAMETargets == {<<"a", "z">>, <<"b", "z">>}

\* a CNAME rrset as the constructor reads it: rrset[0].target and rrset.ttl
CNAMEInfos == [target : CNAMETargets, ttl : TTLs]

\* lines 1273-1277: the attributes before the first test
DNAMEStart == [warnings |-> <<>>, errors |-> <<>>, validation_status |-> UNSET]

\* the locals of the model: what serialize returned, None before it is called
DNAMELocals == [serialized |-> None]

\* lines 1279-1281: no CNAME was included
DNAME_NoCNAME ==
    /\ inp.kind = "CNAME_DNAME" /\ pc = "cname"
    /\ inp.included_cname = None
    /\ self' = [self EXCEPT !.validation_status = DNAME_STATUS_INVALID,
                            !.errors = Append(@, Err("DNAMENoCNAME"))]
    /\ pc' = "done"
    /\ UNCHANGED <<inp, loc>>

\* lines 1282-1286: the included target against the synthesized one
DNAME_Target ==
    /\ inp.kind = "CNAME_DNAME" /\ pc = "cname"
    /\ inp.included_cname # None
    /\ self' = IF Val(inp.included_cname).target # inp.synthesized_cname.target
               THEN [self EXCEPT !.errors = Append(@, Err("DNAMETargetMismatch")),
                                 !.validation_status = DNAME_STATUS_INVALID_TARGET]
               ELSE [self EXCEPT !.validation_status = DNAME_STATUS_VALID]
    /\ pc' = "ttl"
    /\ UNCHANGED <<inp, loc>>

\* a faulty variant of DNAME_ttl_warnings: an included TTL of 0 is not told apart
DNAME_ttl_warnings_mismatch_only(included_ttl, synthesized_ttl) ==
    IF included_ttl # synthesized_ttl THEN <<Err("DNAMETTLMismatch")>> ELSE <<>>

\* lines 1287-1291: the warnings a pair of TTLs gives
DNAME_ttl_warnings(included_ttl, synthesized_ttl) ==
    IF included_ttl # synthesized_ttl
    THEN IF included_ttl = 0 THEN <<Err("DNAMETTLZero")>>
                             ELSE <<Err("DNAMETTLMismatch")>>
    ELSE <<>>

\* lines 1287-1291: the included TTL against the synthesized one
DNAME_TTL ==
    /\ inp.kind = "CNAME_DNAME" /\ pc = "ttl"
    /\ self' = [self EXCEPT !.warnings =
                   @ \o DNAME_ttl_warnings(Val(inp.included_cname).ttl,
                                           inp.synthesized_cname.ttl)]
    /\ pc' = "done"
    /\ UNCHANGED <<inp, loc>>

\* line 1300: show_basic
DNAME_show_basic(s, loglevel) ==
    \/ s.warnings # <<>> /\ loglevel <= logging_WARNING
    \/ s.errors # <<>> /\ loglevel <= logging_ERROR
    \/ s.validation_status # STATUS_VALID

\* d with d[key] = value when cond holds
put(d, cond, key, value) == IF cond THEN (key :> value) @@ d ELSE d

\* lines 1296-1331: the ordered map serialize builds, as a map from its keys.
\* rrset_info_serializer is None, or a callable that returns an empty or a
\* non-empty serialization of the DNAME rrset
DNAME_serialized(s, i, rrset_info_serializer, consolidate_clients, loglevel) ==
    LET show_basic == DNAME_show_basic(s, loglevel)
        d1 == put(EmptyMap, loglevel <= logging_INFO \/ show_basic,
                  "description", "CNAME synthesis")
        d2 == put(d1, IF rrset_info_serializer # "None"
                      THEN rrset_info_serializer = "non-empty"
                      ELSE loglevel <= logging_DEBUG,
                  "dname", "dname_info")
        d3 == put(d2, loglevel <= logging_DEBUG, "meta",
                  IF i.included_cname # None THEN {"cname_owner", "cname_target"}
                                             ELSE {})
        d4 == put(d3, loglevel <= logging_INFO \/ s.validation_status # STATUS_VALID,
                  "status", dname_status_mapping(s.validation_status))
        d5 == put(d4, loglevel <= logging_DEBUG \/ show_basic, "servers",
                  IF consolidate_clients THEN "sorted list" ELSE "dict")
        d6 == put(d5, s.warnings # <<>> /\ loglevel <= logging_WARNING,
                  "warnings", s.warnings)
    IN  put(d6, s.errors # <<>> /\ loglevel <= logging_ERROR, "errors", s.errors)

\* lines 1296-1331: CNAMEFromDNAMEStatus.serialize, called on a constructed object
DNAME_serialize ==
    /\ inp.kind = "CNAME_DNAME" /\ pc = "done"
    /\ \E rrset_info_serializer \in {"None", "empty", "non-empty"},
          consolidate_clients \in BOOLEAN, loglevel \in LogLevels :
         loc' = [loc EXCEPT !.serialized =
                    Some([loglevel |-> loglevel,
                          d |-> DNAME_serialized(self, inp, rrset_info_serializer,
                                                 consolidate_clients, loglevel)])]
    /\ pc' = "serialized"
    /\ UNCHANGED <<inp, self>>

\* the arguments of CNAMEFromDNAMEStatus(synthesized_cname, included_cname)
InitDNAME ==
    \E synthesized \in CNAMEInfos, included \in {None} \cup {Some(c) : c \in CNAMEInfos} :
      /\ inp = [kind |-> "CNAME_DNAME", synthesized_cname |-> synthesized,
                included_cname |-> included]
      /\ pc = "cname"
      /\ self = DNAMEStart
      /\ loc = DNAMELocals

NextDNAME == DNAME_NoCNAME \/ DNAME_Target \/ DNAME_TTL \/ DNAME_serialize

SpecDNAME == InitDNAME /\ [][NextDNAME]_vars

\* the constructor of CNAMEFromDNAMEStatus returned
DNAMEConstructed == inp.kind = "CNAME_DNAME" /\ pc \in {"done", "serialized"}

\* C14: for CNAMEFromDNAMEStatus the status is INVALID with errors
\* [DNAMENoCNAME] when no CNAME is included; otherwise INVALID_TARGET with
\* errors [DNAMETargetMismatch] when the included and the synthesized target
\* differ, else VALID with no errors.  Whatever the TTLs are the status is the
\* one the targets give; differing TTLs add exactly one warning, DNAMETTLZero
\* if the included TTL is 0 and DNAMETTLMismatch otherwise, and equal TTLs add
\* none.
C14_Synthesis ==
    DNAMEConstructed
        => IF inp.included_cname = None
           THEN /\ self.validation_status = DNAME_STATUS_INVALID
                /\ self.errors = <<Err("DNAMENoCNAME")>>
           ELSE LET included == Val(inp.included_cname)
                    synthesized == inp.synthesized_cname
                IN  /\ IF included.target # synthesized.target
                       THEN /\ self.validation_status = DNAME_STATUS_INVALID_TARGET
                            /\ self.errors = <<Err("DNAMETargetMismatch")>>
                       ELSE /\ self.validation_status = DNAME_STATUS_VALID
                            /\ self.errors = <<>>
                    /\ self.warnings =
                          IF included.ttl = synthesized.ttl THEN <<>>
                          ELSE IF included.ttl = 0 THEN <<Err("DNAMETTLZero")>>
                          ELSE <<Err("DNAMETTLMismatch")>>

\* an included CNAME of TTL 0 with the synthesized target and another TTL:
\* VALID with the one warning DNAMETTLZero
C14_Witness ==
    /\ DNAMEConstructed
    /\ inp.included_cname # None
    /\ Val(inp.included_cname).ttl = 0 /\ inp.synthesized_cname.ttl # 0
    /\ self.validation_status = DNAME_STATUS_VALID
    /\ self.warnings = <<Err("DNAMETTLZero")>>

\* show_basic as the serialization contract words it, a status other than
\* VALID counting as not trivially valid
show_basic_contract(s, loglevel) ==
    \/ Len(s.warnings) > 0 /\ loglevel <= logging_WARNING
    \/ Len(s.errors) > 0 /\ loglevel <= logging_ERROR
    \/ s.validation_status # STATUS_VALID

\* C15: serialize emits the key 'description' and the key 'status' under the
\* same condition: both are present exactly when loglevel <= INFO or
\* show_basic holds, and both are absent otherwise.
C15_AsStated ==
    pc = "serialized"
        => LET r == Val(loc.serialized)
               shown == r.loglevel <= logging_INFO \/ show_basic_contract(self, r.loglevel)
           IN  /\ "description" \in DOMAIN r.d <=> shown
               /\ "status" \in DOMAIN r.d <=> shown

\* what CNAMEFromDNAMEStatus.serialize keeps: 'description' follows the
\* contract, and 'status' is present exactly when loglevel <= INFO or the
\* status is not VALID
C15_DNAMEKeys ==
    pc = "serialized"
        => LET r == Val(loc.serialized)
           IN  /\ "description" \in DOMAIN r.d
                     <=> (r.loglevel <= logging_INFO \/ show_basic_contract(self, r.loglevel))
               /\ "status" \in DOMAIN r.d
                     <=> (r.loglevel <= logging_INFO
                             \/ self.validation_status # STATUS_VALID)

(***************************************************************************)
(* One more failing check never repairs a signature or a DS record.        *)
(***************************************************************************)
\* the inputs that differ from i in one argument only, by which one more check
\* condition fails: the signer leaves the scope, reference_ts moves before the
\* inception or to or after the expiration, the revoke bit of the DNSKEY
\* becomes set, or the verification changes from ok to bad
one_more_failing(i) ==
    LET verdict == IF i.kind = "RRSIG" THEN i.validate_rrsig ELSE i.validate_ds_digest
        signer_moved ==
            IF i.kind = "RRSIG" /\ ~signer_not_zone(i)
            THEN {j \in {[i EXCEPT !.rrsig.signer = sg] : sg \in SignerNames} :
                     signer_not_zone(j)}
            ELSE {}
        ts_moved ==
            IF i.kind = "RRSIG"
            THEN {[i EXCEPT !.reference_ts = t] :
                    t \in {u \in Timestamps :
                             \/ u < i.rrsig.inception
                                  /\ ~(i.reference_ts < i.rrsig.inception)
                             \/ u >= i.rrsig.expiration
                                  /\ ~(i.reference_ts >= i.rrsig.expiration)}}
            ELSE {}
        revoke_set ==
            IF i.dnskey # None /\ ~flag_set(Val(i.dnskey).flags, DNSKEY_FLAG_REVOKE)
            THEN {[i EXCEPT !.dnskey =
                      Some([Val(i.dnskey) EXCEPT !.flags = @ + DNSKEY_FLAG_REVOKE])]}
            ELSE {}
        verification_bad ==
            IF verdict = Some(TRUE)
            THEN {IF i.kind = "RRSIG" THEN [i EXCEPT !.validate_rrsig = Some(FALSE)]
                                      ELSE [i EXCEPT !.validate_ds_digest = Some(FALSE)]}
            ELSE {}
    IN  signer_moved \cup ts_moved \cup revoke_set \cup verification_bad

\* C16: for RRSIGStatus and DSStatus the final status is the one of the first
\* failing check of the input, and if an input yields a status other than
\* VALID, so does every input that differs from it only in that one more check
\* condition fails.
C16_Monotone ==
    SigDone
        => /\ self.validation_status = first_failing_status(inp)
           /\ self.validation_status # STATUS_VALID
                 => \A j \in one_more_failing(inp) :
                       first_failing_status(j) # STATUS_VALID

\* an expired signature whose reference_ts can move before the inception,
\* which turns EXPIRED into PREMATURE
C16_Witness ==
    /\ inp.kind = "RRSIG" /\ pc = "done"
    /\ self.validation_status = RRSIG_STATUS_EXPIRED
    /\ \E j \in one_more_failing(inp) :
          /\ j.reference_ts < j.rrsig.inception
          /\ first_failing_status(j) = RRSIG_STATUS_PREMATURE

(***************************************************************************)
(* The empty-non-terminal fallback of NSECStatusNoAnswer.                  *)
(***************************************************************************)
\* no NSEC owner equals qname and the fallback selected an NSEC record
fallback_selected ==
    /\ inp.kind = "NSEC_NoAnswer"
    /\ inp.qname \notin input_owners
    /\ self.nsec_for_qname # None

\* C17: for NSECStatusNoAnswer, when no NSEC owner equals qname, the NSEC
\* record the fallback selects as nsec_for_qname covers qname: its owner is
\* canonically less than qname, qname is less than its next name, and the next
\* name is a strict descendant of qname.
C17_AsStated ==
    fallback_selected
        => LET nsec_name == Val(self.nsec_for_qname)
               next_name == inp.nsec_set_info.rrsets[nsec_name].next
           IN  /\ name_lt(nsec_name, inp.qname)
               /\ name_lt(inp.qname, next_name)
               /\ is_subdomain(next_name, inp.qname) /\ next_name # inp.qname

\* what the selected record does satisfy: its next name is a strict descendant
\* of qname, and so is canonically greater than qname
C17_NextBelowQname ==
    fallback_selected
        => LET nsec_name == Val(self.nsec_for_qname)
               next_name == inp.nsec_set_info.rrsets[nsec_name].next
           IN  /\ name_lt(inp.qname, next_name)
               /\ is_subdomain(next_name, inp.qname) /\ next_name # inp.qname

(***************************************************************************)
(* The errors of NSECStatusWildcard.                                       *)
(***************************************************************************)
\* the covers the rules of NSECStatusWildcard ask the input view for
qname_covered == nsec_covering_name(inp.nsec_set_info, inp.qname) # {}

next_closer_covered ==
    nsec_covering_name(inp.nsec_set_info,
        NSECWildcard_next_closest_encloser(inp.qname, inp.wildcard_name)) # {}

origin_covered == nsec_covering_name(inp.nsec_set_info, inp.origin) # {}

C19_AsStated ==
    (IsNSEC3 /\ Constructed /\ self.validation_status = NSEC_STATUS_INVALID
        /\ invalid_algs_of_input # {})
        => occurrences(self.errors, "UnsupportedNSEC3Algorithm") = 1

\* C19: UnsupportedNSEC3Algorithm is never recorded twice by any of the three
\* NSEC3 evaluators, and it is recorded only when the view reports an invalid
\* algorithm; for NSEC3StatusNXDOMAIN, whenever the status is INVALID and the
\* view reports an invalid algorithm, errors contains it exactly once.
C19_AtMostOnce ==
    (IsNSEC3 /\ Ended)
        => /\ occurrences(self.errors, "UnsupportedNSEC3Algorithm")
                 <= (IF invalid_algs_of_input # {} THEN 1 ELSE 0)
           /\ (inp.kind = "NSEC3_NXDOMAIN" /\ Constructed
                  /\ self.validation_status = NSEC_STATUS_INVALID
                  /\ invalid_algs_of_input # {})
                 => occurrences(self.errors, "UnsupportedNSEC3Algorithm") = 1

\* an NXDOMAIN proof in which both the next closer rule and the wildcard rule
\* triggered while the view reports an invalid algorithm
C19_Witness ==
    /\ inp.kind = "NSEC3_NXDOMAIN" /\ Constructed
    /\ invalid_algs_of_input # {}
    /\ {"NextClosestEncloserNotCoveredNameError", "WildcardNotCoveredNSEC3"}
          \subseteq Names(self.errors)
    /\ occurrences(self.errors, "UnsupportedNSEC3Algorithm") = 1

(***************************************************************************)
(* The validity window of RRSIGStatus.                                     *)
(***************************************************************************)
\* the validity-window check of an RRSIGStatus has run
window_checked == inp.kind = "RRSIG" /\ pc \in {"verdict", "done"}

\* C20: for RRSIGStatus the validity-window check records InceptionInFuture
\* iff reference_ts < inception, ExpirationInPast iff reference_ts >=
\* expiration, and TTLBeyondExpiration iff reference_ts < expiration and
\* reference_ts + min(rrset.ttl, rrsig_info.ttl, original_ttl) >= expiration;
\* ExpirationInPast and TTLBeyondExpiration are never both recorded; the
\* TTL-sanity check never assigns the status, nor does a window check that
\* finds at most TTLBeyondExpiration, and the final status is the one of the
\* first failing check among the others.
C20_Window ==
    /\ [](window_checked
            => /\ "InceptionInFuture" \in Names(self.errors)
                     <=> inp.reference_ts < inp.rrsig.inception
               /\ "ExpirationInPast" \in Names(self.errors)
                     <=> inp.reference_ts >= inp.rrsig.expiration
               /\ "TTLBeyondExpiration" \in Names(self.errors)
                     <=> ttl_beyond_expiration(inp)
               /\ ~({"ExpirationInPast", "TTLBeyondExpiration"}
                       \subseteq Names(self.errors)))
    /\ [][(inp.kind = "RRSIG" /\ pc = "ttl")
            => self.validation_status' = self.validation_status]_vars
    /\ [][(inp.kind = "RRSIG" /\ pc = "window"
              /\ ~(inp.reference_ts < inp.rrsig.inception)
              /\ ~(inp.reference_ts >= inp.rrsig.expiration))
            => self.validation_status' = self.validation_status]_vars
    /\ []((inp.kind = "RRSIG" /\ pc = "done")
            => self.validation_status = first_failing_status(inp))

\* a VALID signature, checked after time 0 and before its expiration, whose
\* smallest TTL reaches the expiration
C20_Witness ==
    /\ inp.kind = "RRSIG" /\ pc = "done"
    /\ self.validation_status = RRSIG_STATUS_VALID
    /\ "TTLBeyondExpiration" \in Names(self.errors)
    /\ inp.reference_ts > 0

\* a VALID signature with both TTL-sanity findings
C20_TTLSanityWitness ==
    /\ inp.kind = "RRSIG" /\ pc = "done"
    /\ self.validation_status = RRSIG_STATUS_VALID
    /\ "RRsetTTLMismatch" \in Names(self.warnings)
    /\ "OriginalTTLExceeded" \in Names(self.errors)

(***************************************************************************)
(* The rules of NSECStatusNXDOMAIN.                                        *)
(***************************************************************************)
\* the names of the errors, in the order they were appended
names_in_order(list) == [k \in 1..Len(list) |-> list[k].name]

\* the ancestors a of qname, below or at origin, whose wildcard *.a is covered
covered_wildcard_parents ==
    {a \in ancestors(inp.qname, inp.origin) :
        nsec_covering_name(inp.nsec_set_info, from_text_wild(a)) # {}}

\* the wildcard the scan from qname upward meets first: that of the longest
\* such ancestor, or *.origin when no wildcard is covered
first_covered_wildcard ==
    IF covered_wildcard_parents = {} THEN from_text_wild(inp.origin)
    ELSE from_text_wild(CHOOSE a \in covered_wildcard_parents :
                           \A b \in covered_wildcard_parents : Len(b) <= Len(a))

\* C21: for NSECStatusNXDOMAIN wildcard_name is the wildcard the scan from
\* qname upward meets first among the covered ones, or *.origin if none is
\* covered; the status is VALID iff qname is covered, such a wildcard is
\* covered and no NSEC covers the origin; and errors holds, in this order,
\* SnameNotCoveredNameError, WildcardNotCoveredNSEC and LastNSECNextNotZone,
\* each once and exactly for the condition that fails.
C21_NXDOMAINRules ==
    (inp.kind = "NSEC_NXDOMAIN" /\ Constructed)
        => /\ self.wildcard_name = first_covered_wildcard
           /\ self.validation_status = NSEC_STATUS_VALID
                 <=> (qname_covered /\ covered_wildcard_parents # {} /\ ~origin_covered)
           /\ self.validation_status \in {NSEC_STATUS_VALID, NSEC_STATUS_INVALID}
           /\ names_in_order(self.errors) =
                 (IF qname_covered THEN <<>> ELSE <<"SnameNotCoveredNameError">>)
                 \o (IF covered_wildcard_parents # {} THEN <<>>
                     ELSE <<"WildcardNotCoveredNSEC">>)
                 \o (IF origin_covered THEN <<"LastNSECNextNotZone">> ELSE <<>>)

\* a VALID NXDOMAIN proof for a name two labels below the origin, in which the
\* wildcards of both ancestors are covered and the nearer one was kept
C21_Witness ==
    /\ inp.kind = "NSEC_NXDOMAIN" /\ Constructed
    /\ self.validation_status = NSEC_STATUS_VALID
    /\ Cardinality(covered_wildcard_parents) = 2
    /\ self.wildcard_name = from_text_wild(parent(inp.qname))

(***************************************************************************)
(* The rules of NSECStatusNoAnswer.                                        *)
(***************************************************************************)
\* the type is in the bitmap of the NSEC record selected as nsec_for_qname
selected_has(rdtype) ==
    rdtype_exists_in_bitmap(inp.nsec_set_info, Val(self.nsec_for_qname), rdtype)

\* the type is in the bitmap of an NSEC record whose owner is qname
qname_has(rdtype) ==
    /\ inp.qname \in input_owners
    /\ rdtype_exists_in_bitmap(inp.nsec_set_info, inp.qname, rdtype)

\* the outcome the rules for an NSEC for qname give for the bits ns, ds, soa
\* and stype
for_qname_outcome(ns, ds, soa, stype) ==
    IF inp.rdtype = RD_DS \/ inp.nsec_set_info.referral
    THEN /\ self.validation_status = NSEC_STATUS_VALID <=> (ns /\ ~ds /\ ~soa)
         /\ names_in_order(self.errors) =
               (IF ns THEN <<>> ELSE <<"ReferralWithoutNSBitNSEC">>)
               \o (IF ds THEN <<"ReferralWithDSBitNSEC">> ELSE <<>>)
               \o (IF soa THEN <<"ReferralWithSOABitNSEC">> ELSE <<>>)
    ELSE /\ self.validation_status = NSEC_STATUS_VALID <=> ~stype
         /\ names_in_order(self.errors) =
               (IF stype THEN <<"StypeInBitmapNoDataNSEC">> ELSE <<>>)

\* C22 as stated: for NSECStatusNoAnswer with an NSEC for qname (owner match
\* or fallback), the status and the errors are the ones the bits of that NSEC
\* give: for a DS query or a referral VALID iff NS is set and DS and SOA are
\* unset, otherwise VALID iff the rdtype bit is unset.
C22_AsStated ==
    (inp.kind = "NSEC_NoAnswer" /\ Constructed /\ self.nsec_for_qname # None)
        => for_qname_outcome(selected_has(RD_NS), selected_has(RD_DS),
                             selected_has(RD_SOA), selected_has(inp.rdtype))

\* what the constructor does for C22's case: the status and the errors are
\* the ones given by the bits of the NSEC whose owner is qname, every bit
\* counting as unset when the NSEC was selected by the fallback: for a DS query or a referral VALID iff NS is set
\* and DS and SOA are unset, otherwise VALID iff the rdtype bit is unset; the
\* wildcard NSEC and an NSEC covering the origin have no influence.
C22_QnameBits ==
    (inp.kind = "NSEC_NoAnswer" /\ Constructed /\ self.nsec_for_qname # None)
        => /\ for_qname_outcome(qname_has(RD_NS), qname_has(RD_DS),
                                qname_has(RD_SOA), qname_has(inp.rdtype))
           /\ self.validation_status \in {NSEC_STATUS_VALID, NSEC_STATUS_INVALID}

\* a DS query answered through the fallback: the selected NSEC has the NS bit
\* and the proof is INVALID for want of it
C22_FallbackBits ==
    /\ inp.kind = "NSEC_NoAnswer" /\ Constructed /\ fallback_selected
    /\ inp.rdtype = RD_DS
    /\ selected_has(RD_NS)
    /\ names_in_order(self.errors) = <<"ReferralWithoutNSBitNSEC">>

\* a VALID proof from the NSEC at qname while a wildcard NSEC carries the
\* query type and an NSEC covers the origin
C22_NoInfluenceWitness ==
    /\ inp.kind = "NSEC_NoAnswer" /\ Constructed
    /\ inp.qname \in input_owners
    /\ self.validation_status = NSEC_STATUS_VALID
    /\ self.wildcard_has_rdtype = Some(TRUE)
    /\ origin_covered

\* the wildcards of ancestors of qname that own an NSEC record
wildcard_owners ==
    {from_text_wild(a) : a \in ancestors(inp.qname, inp.origin)} \cap input_owners

\* the one of them nearest to the origin, which the scan meets last
last_wildcard_owner ==
    CHOOSE w \in wildcard_owners : \A v \in wildcard_owners : Len(w) <= Len(v)

\* the outcome of the wildcard rules when the wildcard NSEC is the one at w
wildcard_outcome(w) ==
    LET stype == rdtype_exists_in_bitmap(inp.nsec_set_info, w, inp.rdtype)
    IN  /\ self.validation_status = NSEC_STATUS_VALID
              <=> (qname_covered /\ ~stype /\ ~origin_covered)
        /\ names_in_order(self.errors) =
              (IF qname_covered THEN <<>> ELSE <<"SnameNotCoveredWildcardNoData">>)
              \o (IF stype THEN <<"StypeInBitmapNoDataNSEC">> ELSE <<>>)
              \o (IF origin_covered THEN <<"LastNSECNextNotZone">> ELSE <<>>)

\* no NSEC for qname: no owner match, and the fallback selected none
no_nsec_for_qname ==
    inp.kind = "NSEC_NoAnswer" /\ Constructed /\ self.nsec_for_qname = None

\* C23 as stated: for NSECStatusNoAnswer without an NSEC for qname, whenever an
\* NSEC owner equals a wildcard of an ancestor of qname the status is VALID iff
\* an NSEC covers qname, the bitmap of that wildcard NSEC lacks rdtype and no
\* NSEC covers the origin, with one error for each failure.
C23_AsStated ==
    no_nsec_for_qname => \A w \in wildcard_owners : wildcard_outcome(w)

\* C23: for NSECStatusNoAnswer without an NSEC for qname, when NSEC owners
\* equal wildcards of ancestors of qname the status is VALID iff an NSEC covers
\* qname, the bitmap of the wildcard NSEC nearest to the origin lacks rdtype
\* and no NSEC covers the origin, with SnameNotCoveredWildcardNoData,
\* StypeInBitmapNoDataNSEC and LastNSECNextNotZone recorded in this order for
\* the failures; without a wildcard NSEC the status is INVALID and errors is
\* exactly [NoNSECMatchingSnameNoData].
C23_LastWildcard ==
    no_nsec_for_qname
        => /\ self.validation_status \in {NSEC_STATUS_VALID, NSEC_STATUS_INVALID}
           /\ IF wildcard_owners # {}
              THEN /\ wildcard_outcome(last_wildcard_owner)
                   /\ self.wildcard_name = last_wildcard_owner
              ELSE /\ self.validation_status = NSEC_STATUS_INVALID
                   /\ names_in_order(self.errors) = <<"NoNSECMatchingSnameNoData">>

\* two wildcard NSECs, of which only the one nearer to qname carries rdtype,
\* and a VALID proof
C23_Witness ==
    /\ no_nsec_for_qname
    /\ Cardinality(wildcard_owners) = 2
    /\ \E w \in wildcard_owners :
          rdtype_exists_in_bitmap(inp.nsec_set_info, w, inp.rdtype)
    /\ self.validation_status = NSEC_STATUS_VALID

\* no NSEC for qname and no wildcard NSEC
C23_NoMatchWitness ==
    /\ no_nsec_for_qname /\ wildcard_owners = {}
    /\ inp.qname # inp.origin
    /\ names_in_order(self.errors) = <<"NoNSECMatchingSnameNoData">>

(***************************************************************************)
(* The rules of NSEC3StatusNXDOMAIN.                                       *)
(***************************************************************************)
\* the closest enclosers and the parameter groups of the input view
input_enclosers ==
    DOMAIN get_closest_encloser(inp.nsec_set_info, inp.qname, inp.origin)

input_groups == DOMAIN nsec3_params(inp.nsec_set_info)

\* under group g an NSEC3 record covers the hash of name
hash_covered(name, g) ==
    /\ digest_for(name, inp.origin, g) # None
    /\ nsec3_covering_name(inp.nsec_set_info, digest_for(name, inp.origin, g),
                           g[1], g[2], g[3]) # {}

\* some NSEC3 covers the hash of the next closer name of some encloser
some_next_closer_covered ==
    \E e \in input_enclosers, g \in input_groups :
        hash_covered(NSEC3_next_closest_encloser(inp.qname, e), g)

\* some NSEC3 covers the hash of the wildcard of some encloser
some_wildcard_covered ==
    \E e \in input_enclosers, g \in input_groups :
        hash_covered(NSEC3_get_wildcard(e), g)

\* C24: for NSEC3StatusNXDOMAIN with at least one valid algorithm, the status
\* is VALID iff the view reports a closest encloser, some NSEC3 covers the hash
\* of a next closer name and some NSEC3 covers the hash of a wildcard of an
\* encloser; NoClosestEncloserNameError is recorded iff there is no closest
\* encloser, and otherwise NextClosestEncloserNotCoveredNameError and
\* WildcardNotCoveredNSEC3 are each recorded, once, iff the respective cover is
\* missing.
C24_NXDOMAINRules ==
    (inp.kind = "NSEC3_NXDOMAIN" /\ Constructed /\ valid_algs_of_input # {})
        => /\ self.validation_status = NSEC_STATUS_VALID
                 <=> (input_enclosers # {} /\ some_next_closer_covered
                        /\ some_wildcard_covered)
           /\ self.validation_status \in {NSEC_STATUS_VALID, NSEC_STATUS_INVALID}
           /\ occurrences(self.errors, "NoClosestEncloserNameError")
                 = (IF input_enclosers = {} THEN 1 ELSE 0)
           /\ occurrences(self.errors, "NextClosestEncloserNotCoveredNameError")
                 = (IF input_enclosers # {} /\ ~some_next_closer_covered THEN 1 ELSE 0)
           /\ occurrences(self.errors, "WildcardNotCoveredNSEC3")
                 = (IF input_enclosers # {} /\ ~some_wildcard_covered THEN 1 ELSE 0)
           /\ Names(self.errors) \subseteq
                 {"NoClosestEncloserNameError", "NextClosestEncloserNotCoveredNameError",
                  "WildcardNotCoveredNSEC3", "UnsupportedNSEC3Algorithm"}

\* a closest encloser whose next closer name is covered and whose wildcard is
\* not
C24_Witness ==
    /\ inp.kind = "NSEC3_NXDOMAIN" /\ Constructed /\ valid_algs_of_input # {}
    /\ input_enclosers # {}
    /\ some_next_closer_covered /\ ~some_wildcard_covered
    /\ names_in_order(self.errors) = <<"WildcardNotCoveredNSEC3">>

\* a closest encloser with both covers missing, and both errors
C24_BothMissingWitness ==
    /\ inp.kind = "NSEC3_NXDOMAIN" /\ Constructed /\ valid_algs_of_input # {}
    /\ input_enclosers # {}
    /\ {"NextClosestEncloserNotCoveredNameError", "WildcardNotCoveredNSEC3"}
          \subseteq Names(self.errors)

\* a VALID NXDOMAIN proof
C24_ValidWitness ==
    /\ inp.kind = "NSEC3_NXDOMAIN" /\ Constructed /\ valid_algs_of_input # {}
    /\ self.validation_status = NSEC_STATUS_VALID

(***************************************************************************)
(* The rules of NSEC3StatusWildcard.                                       *)
(***************************************************************************)
\* the view reports no closest encloser, so that it is inferred
encloser_inferred == input_enclosers = {}

\* the enclosers of NSEC3StatusWildcard: those of the view or, when it
\* reports none, the parent of the wildcard
wildcard_enclosers ==
    IF encloser_inferred THEN {parent(inp.wildcard_name)} ELSE input_enclosers

wildcard_next_closer_covered ==
    \E e \in wildcard_enclosers, g \in input_groups :
        hash_covered(NSEC3_next_closest_encloser(inp.qname, e), g)

wildcard_hash_covered ==
    \E e \in wildcard_enclosers, g \in input_groups :
        hash_covered(NSEC3_get_wildcard(e), g)

C25_BothErrorsWitness ==
    /\ inp.kind = "NSEC3_Wildcard" /\ pc = "serialized"
    /\ ~encloser_inferred
    /\ names_in_order(self.errors) =
          <<"NextClosestEncloserNotCoveredWildcardAnswer", "WildcardCoveredAnswerNSEC3">>
    /\ loc.inferred_from_wildcard = Some(FALSE)

\* a serialization at DEBUG that ends in KeyError: the view holds no NSEC3
C25_KeyErrorWitness ==
    /\ inp.kind = "NSEC3_Wildcard" /\ pc = "raised" /\ loc.raised = "KeyError"

(***************************************************************************)
(* The rules of NSEC3StatusNoAnswer for an NSEC3 at the hash of qname.     *)
(***************************************************************************)
\* the owners that equal the hash of qname under the parameters of their group
qname_matches ==
    {o \in input_owners :
        o = digest_for(inp.qname, inp.origin, inp.nsec_set_info.rrsets[o].params)}

\* the type is in the bitmap of an NSEC3 at the hash of qname
match_has(rdtype) ==
    \E o \in qname_matches : rdtype_exists_in_bitmap(inp.nsec_set_info, o, rdtype)

\* C26: for NSEC3StatusNoAnswer with an NSEC3 owner at the hash of qname under
\* some parameter group, a bit counting as set when a matching NSEC3 carries
\* it: for a DS query or a referral the status is VALID iff NS is set and DS
\* and SOA are unset, with ReferralWithoutNSBitNSEC3, ReferralWithDSBitNSEC3
\* and ReferralWithSOABitNSEC3 recorded per violation; otherwise the status is
\* VALID iff neither rdtype nor CNAME is set, with StypeInBitmapNoDataNSEC3
\* recorded once for rdtype and once for CNAME when set.
C26_MatchRules ==
    (inp.kind = "NSEC3_NoAnswer" /\ Ended /\ qname_matches # {})
        => /\ pc = "done"
           /\ self.validation_status \in {NSEC_STATUS_VALID, NSEC_STATUS_INVALID}
           /\ IF inp.rdtype = RD_DS \/ inp.nsec_set_info.referral
              THEN /\ self.validation_status = NSEC_STATUS_VALID
                        <=> (match_has(RD_NS) /\ ~match_has(RD_DS) /\ ~match_has(RD_SOA))
                   /\ names_in_order(self.errors) =
                        (IF match_has(RD_NS) THEN <<>>
                         ELSE <<"ReferralWithoutNSBitNSEC3">>)
                        \o (IF match_has(RD_DS) THEN <<"ReferralWithDSBitNSEC3">>
                            ELSE <<>>)
                        \o (IF match_has(RD_SOA) THEN <<"ReferralWithSOABitNSEC3">>
                            ELSE <<>>)
              ELSE /\ self.validation_status = NSEC_STATUS_VALID
                        <=> (~match_has(inp.rdtype) /\ ~match_has(RD_CNAME))
                   /\ self.errors =
                        (IF match_has(inp.rdtype)
                         THEN <<[name |-> "StypeInBitmapNoDataNSEC3",
                                 stype |-> inp.rdtype]>>
                         ELSE <<>>)
                        \o (IF match_has(RD_CNAME)
                            THEN <<[name |-> "StypeInBitmapNoDataNSEC3",
                                    stype |-> RD_CNAME]>>
                            ELSE <<>>)

\* a matching NSEC3 whose bitmap holds the query type and CNAME: the error is
\* recorded twice
C26_Witness ==
    /\ inp.kind = "NSEC3_NoAnswer" /\ Constructed /\ qname_matches # {}
    /\ match_has(inp.rdtype) /\ match_has(RD_CNAME)
    /\ Len(self.errors) = 2

\* a referral whose matching NSEC3 has the NS, DS and SOA bits
C26_ReferralWitness ==
    /\ inp.kind = "NSEC3_NoAnswer" /\ Constructed /\ qname_matches # {}
    /\ inp.nsec_set_info.referral
    /\ names_in_order(self.errors) =
          <<"ReferralWithDSBitNSEC3", "ReferralWithSOABitNSEC3">>

\* a VALID referral proof from two matching NSEC3 records of different
\* parameter groups
C26_TwoGroupsWitness ==
    /\ inp.kind = "NSEC3_NoAnswer" /\ Constructed
    /\ Cardinality(qname_matches) = 2
    /\ inp.rdtype = RD_DS
    /\ self.validation_status = NSEC_STATUS_VALID

(***************************************************************************)
(* A failed verification and the status.                                   *)
(***************************************************************************)
\* a DNSKEY is supplied, the algorithm is supported and the cryptographic
\* verification returns false
verification_false(i) ==
    /\ i.dnskey # None
    /\ IF i.kind = "RRSIG"
       THEN ~i.algorithm_unknown /\ i.validate_rrsig = Some(FALSE)
       ELSE ~i.digest_algorithm_unknown /\ i.validate_ds_digest = Some(FALSE)

key_tags_equal(i) == Val(i.dnskey).key_tag = record_key_tag(i)

\* C27 as stated: for RRSIGStatus and DSStatus, whenever a DNSKEY is supplied,
\* the algorithm is supported and the verification returns false, the status
\* is not VALID, whatever the revoke bit, the covered type and the key tags.
C27_AsStated ==
    (SigDone /\ verification_false(inp)) => self.validation_status # STATUS_VALID

\* C27: for RRSIGStatus and DSStatus, whenever a DNSKEY is supplied, the
\* algorithm is supported and the verification returns false, the status is
\* not VALID if the key tag of the record equals that of the DNSKEY (and the
\* failure is recorded) or if the key is revoked and the covered type is not
\* DNSKEY; with differing key tags the failure is not recorded, and a DSStatus
\* whose key is not revoked is VALID.
C27_MatchingTag ==
    (SigDone /\ verification_false(inp))
        => /\ key_tags_equal(inp)
                 => /\ self.validation_status # STATUS_VALID
                    /\ (IF inp.kind = "RRSIG" THEN "SignatureInvalid" ELSE "DigestInvalid")
                          \in Names(self.errors)
           /\ (~key_tags_equal(inp) /\ revoked(inp))
                 => self.validation_status # STATUS_VALID
           /\ ~key_tags_equal(inp)
                 => {"SignatureInvalid", "DigestInvalid"} \cap Names(self.errors) = {}
           /\ (~key_tags_equal(inp) /\ ~revoked(inp) /\ inp.kind = "DS")
                 => self.validation_status = STATUS_VALID

\* a signature that does not verify under a key with the tag of the RRSIG
C27_Witness ==
    /\ SigDone /\ inp.kind = "RRSIG" /\ verification_false(inp)
    /\ key_tags_equal(inp)
    /\ self.validation_status = RRSIG_STATUS_INVALID_SIG

\* a signature that does not verify under a key with another tag, and VALID
C27_ValidWitness ==
    /\ SigDone /\ inp.kind = "RRSIG" /\ verification_false(inp)
    /\ ~key_tags_equal(inp)
    /\ self.validation_status = STATUS_VALID

(***************************************************************************)
(* One closest encloser and one parameter group behind a VALID proof.      *)
(***************************************************************************)
\* under the one group g, NSEC3 records cover the hash of the next closer name
\* of the encloser e and the hash of its wildcard
proof_under(e, g) ==
    /\ hash_covered(NSEC3_next_closest_encloser(inp.qname, e), g)
    /\ hash_covered(NSEC3_get_wildcard(e), g)

\* C28 as stated: a VALID NSEC3StatusNXDOMAIN has one closest encloser e and
\* one parameter group p such that under p an NSEC3 covers the hash of the
\* next closer name of e and an NSEC3 covers the hash of the wildcard of e.
C28_AsStated ==
    (inp.kind = "NSEC3_NXDOMAIN" /\ Constructed
        /\ self.validation_status = NSEC_STATUS_VALID)
        => \E e \in input_enclosers, g \in input_groups : proof_under(e, g)

\* a VALID proof whose two covers come from different parameter groups
C28_MixedGroups ==
    /\ inp.kind = "NSEC3_NXDOMAIN" /\ Constructed
    /\ self.validation_status = NSEC_STATUS_VALID
    /\ Cardinality(input_enclosers) = 1
    /\ \A e \in input_enclosers, g \in input_groups : ~proof_under(e, g)

(***************************************************************************)
(* The construction of NSECStatusWildcard.                                 *)
(***************************************************************************)
\* what holds of an NSECStatusWildcard during and after its construction
C29_State ==
    inp.kind = "NSEC_Wildcard"
        => /\ {"SnameNotCoveredNameError", "WildcardNotCoveredNSEC"}
                 \cap Names(self.errors) = {}
           /\ occurrences(self.errors, "LastNSECNextNotZone") <= 1
           /\ ~Constructed => /\ self.validation_status = UNSET
                              /\ self.nsec_set_info = None
           /\ Constructed => /\ self.nsec_names_covering_wildcard = EmptyMap
                             /\ self.wildcard_name = inp.wildcard_name
                             /\ self.validation_status
                                   \in {NSEC_STATUS_VALID, NSEC_STATUS_INVALID}
                             /\ self.nsec_set_info # None

\* validation_status and nsec_set_info change in the step of the wildcard rule
\* only
C29_Step ==
    (inp.kind = "NSEC_Wildcard"
        /\ (self'.validation_status # self.validation_status
              \/ self'.nsec_set_info # self.nsec_set_info))
        => (pc = "set_status2" /\ pc' = "done")

\* C29: constructing NSECStatusWildcard runs the inherited constructor with
\* its status rule disabled: errors never holds SnameNotCoveredNameError or
\* WildcardNotCoveredNSEC, LastNSECNextNotZone appears at most once, after
\* construction nsec_names_covering_wildcard is empty and wildcard_name is the
\* caller's, and validation_status and nsec_set_info are unset until the
\* wildcard rule assigns them, in its one step.
C29_WildcardConstruction == []C29_State /\ [][C29_Step]_vars

\* the inherited scan found a covered wildcard other than the caller's, no
\* NSEC covers qname and an NSEC covers the origin
C29_Witness ==
    /\ inp.kind = "NSEC_Wildcard" /\ Constructed
    /\ covered_wildcard_parents # {}
    /\ first_covered_wildcard # inp.wildcard_name
    /\ ~qname_covered /\ origin_covered
    /\ occurrences(self.errors, "LastNSECNextNotZone") = 1

(***************************************************************************)
(* Termination of the wildcard scan.                                       *)
(***************************************************************************)
\* the scan made at most len(qname) - len(origin) passes, none for
\* qname = origin, and then no wildcard is found
C30_Bound ==
    IsNSEC
        => /\ loc.scans <= Len(inp.qname) - Len(inp.origin)
           /\ (inp.qname = inp.origin /\ pc \in {"set_status", "set_status2", "done"})
                 => /\ loc.scans = 0
                    /\ IF inp.kind = "NSEC_NoAnswer"
                       THEN self.nsec_for_wildcard_name = None
                       ELSE inp.kind = "NSEC_NXDOMAIN"
                               => self.nsec_names_covering_wildcard = EmptyMap

\* validation_status and nsec_set_info are assigned
status_assigned ==
    /\ Constructed
    /\ self.validation_status \in {NSEC_STATUS_VALID, NSEC_STATUS_INVALID}
    /\ self.nsec_set_info # None

\* C30: for every qname equal to or below origin the wildcard scan of the
\* NSEC evaluators makes at most len(qname) - len(origin) passes (none when
\* qname is the origin, and then no wildcard is found), and the constructor
\* then reaches the step that assigns validation_status and nsec_set_info.
C30_Termination == []C30_Bound /\ (IsNSEC ~> status_assigned)

\* an NSECStatusNoAnswer whose scan made the two passes from a.a.z to z
C30_Witness ==
    /\ inp.kind = "NSEC_NoAnswer" /\ status_assigned
    /\ Len(inp.qname) - Len(inp.origin) = 2
    /\ loc.scans = 2

\* an NSECStatusNXDOMAIN for qname = origin: no pass
C30_OriginWitness ==
    /\ inp.kind = "NSEC_NXDOMAIN" /\ status_assigned
    /\ inp.qname = inp.origin /\ loc.scans = 0

====
